---- MODULE Spec2Model ----
(***************************************************************************)
(* Model of qms_blinding_map_to_csv_and_merge_v5_1.py: packet-type         *)
(* inference, expected-match resolution, flattening of the blinding maps,  *)
(* the merge of the three authority sources, and the reconciliation of     *)
(* the comparison records against the merged mapping; and of the verdict   *)
(* signals of qms_extract_hvtA_metadata_v5_3_1.py.                         *)
(*                                                                         *)
(* Python str values are TLA+ strings; Len, SubSeq and \o act on them as   *)
(* on sequences of characters.                                             *)
(***************************************************************************)
EXTENDS Integers, Sequences, FiniteSets, TLC

VARIABLES
    pc,           \* position of main()
    iiia_rows,    \* rows of flatten_map(iiia_obj) not yet given to put
    iv_rows,      \* rows of flatten_map(iv_obj) not yet given to put
    pc_rows,      \* rows of parse_pc_override_fragments not yet given to put
    mapping,      \* main's dict: (node_scope, group, arm) -> row
    last_put,     \* ghost: the latest call of put: its arguments and the row its key held
    overridden,   \* ghost: keys of the override fragments given to put so far
    comp_rows,    \* the comparison records read from the comparisons CSV
    comp_i,       \* index in comp_rows of the record the reconcile loop visits next
    out_rows,     \* enriched records
    missing_map,  \* keys without an active mapping, in order of discovery
    files,        \* output files written: file name -> rows
    err,          \* the error that ended the run, or NoError
    skipped,      \* ghost: the malformed elements the flatten loops passed over
    schema_read,  \* ghost: the schema tag load_blinding_map_stage read in each document
    args,         \* resolver harness: the three labels of a call
    result        \* resolver harness: what determine_expected_match gave

vars == <<pc, iiia_rows, iv_rows, pc_rows, mapping, last_put, overridden,
          comp_rows, comp_i, out_rows, missing_map, files, err, skipped, schema_read, args, result>>

---------------------------------------------------------------------------
(* Bounds of the model *)

\* arm entries and override fragments read over the three documents together
MaxRows == 4
\* comparison records in the comparisons CSV
MaxComp == 2

---------------------------------------------------------------------------
(* str helpers *)

LowerChars == "abcdefghijklmnopqrstuvwxyz"
UpperChars == "ABCDEFGHIJKLMNOPQRSTUVWXYZ"
\* code-point order of the characters the model's strings use
CharOrder == " 0123456789ABCDEFGHIJKLMNOPQRSTUVWXYZ_abcdefghijklmnopqrstuvwxyz"

Char(s, i) == SubSeq(s, i, i)

IndexIn(c, table) ==
    IF \E i \in 1..Len(table) : Char(table, i) = c
    THEN CHOOSE i \in 1..Len(table) : Char(table, i) = c
    ELSE 0

UpChar(c) == IF IndexIn(c, LowerChars) > 0 THEN Char(UpperChars, IndexIn(c, LowerChars)) ELSE c

LowChar(c) == IF IndexIn(c, UpperChars) > 0 THEN Char(LowerChars, IndexIn(c, UpperChars)) ELSE c

RECURSIVE StrUpper(_)
StrUpper(s) == IF s = "" THEN "" ELSE UpChar(Char(s, 1)) \o StrUpper(SubSeq(s, 2, Len(s)))

RECURSIVE StrLower(_)
StrLower(s) == IF s = "" THEN "" ELSE LowChar(Char(s, 1)) \o StrLower(SubSeq(s, 2, Len(s)))

IsSpace(c) == c = " "

RECURSIVE LStrip(_)
LStrip(s) == IF s # "" /\ IsSpace(Char(s, 1)) THEN LStrip(SubSeq(s, 2, Len(s))) ELSE s

RECURSIVE RStrip(_)
RStrip(s) == IF s # "" /\ IsSpace(Char(s, Len(s))) THEN RStrip(SubSeq(s, 1, Len(s) - 1)) ELSE s

Strip(s) == RStrip(LStrip(s))

\* pat in s
Contains(s, pat) == \E i \in 1..(Len(s) - Len(pat) + 1) : SubSeq(s, i, i + Len(pat) - 1) = pat

StartsWith(s, pat) == Len(s) >= Len(pat) /\ SubSeq(s, 1, Len(pat)) = pat

EndsWith(s, pat) == Len(s) >= Len(pat) /\ SubSeq(s, Len(s) - Len(pat) + 1, Len(s)) = pat

\* s < t for str
RECURSIVE StrLess(_, _)
StrLess(s, t) ==
    IF t = "" THEN FALSE
    ELSE IF s = "" THEN TRUE
    ELSE IF Char(s, 1) = Char(t, 1) THEN StrLess(SubSeq(s, 2, Len(s)), SubSeq(t, 2, Len(t)))
    ELSE IndexIn(Char(s, 1), CharOrder) < IndexIn(Char(t, 1), CharOrder)

\* d.get(k, default)
Get(d, k, default) == IF k \in DOMAIN d THEN d[k] ELSE default

norm_group(g) ==
    LET x == Strip(g)
    IN  IF StartsWith(x, "IIIA_") THEN SubSeq(x, Len("IIIA_") + 1, Len(x)) ELSE x

---------------------------------------------------------------------------
(* Packet-type inference *)

_u(s) == StrUpper(s)

_looks_tamper(s) ==
    LET x == _u(s)
    IN  Contains(x, "WORKING_TAMPER") \/ Contains(x, "TAMPER")

_looks_pc(s) ==
    LET x == _u(s)
    IN  \/ Contains(x, "PC_REEXPORT")
        \/ (Contains(x, "_PC") /\ Contains(x, "PACKET"))
        \/ (Contains(x, "PC_") /\ Contains(x, "PACKET"))

\* a classifier that looks for the positive-control cues first
ATypePcFirst(a_src) ==
    IF _looks_pc(a_src) THEN "PC"
    ELSE IF _looks_tamper(a_src) THEN "TAMPER"
    ELSE "BASELINE"

_a_type(a_src) ==
    IF _looks_tamper(a_src) THEN "TAMPER"
    ELSE IF _looks_pc(a_src) THEN "PC"
    ELSE "BASELINE"

\* a return value that names the expected match as the mismatch too
ReturnedSame(m, mm, rule) == [ok |-> TRUE, match |-> m, mismatch |-> m, rule |-> rule, error |-> ""]

Returned(m, mm, rule) == [ok |-> TRUE, match |-> m, mismatch |-> mm, rule |-> rule, error |-> ""]

Raised(msg) == [ok |-> FALSE, match |-> "", mismatch |-> "", rule |-> "", error |-> msg]

\* the A=BASELINE branch taken for whichever candidate is the tamper one
BaselineBranchSwapped(c1_t, c2_t) ==
    IF c1_t /\ ~c2_t THEN Returned("QMSv5_01", "QMSv5_02", "A=BASELINE -> match=non-tamper")
    ELSE IF c2_t /\ ~c1_t THEN Returned("QMSv5_02", "QMSv5_01", "A=BASELINE -> match=non-tamper")
    ELSE Raised("Ambiguous: BASELINE arm but neither candidate looks tamper")

BaselineBranch(c1_t, c2_t) ==
    IF c1_t /\ ~c2_t THEN Returned("QMSv5_02", "QMSv5_01", "A=BASELINE -> match=non-tamper")
    ELSE IF c2_t /\ ~c1_t THEN Returned("QMSv5_01", "QMSv5_02", "A=BASELINE -> match=non-tamper")
    ELSE Raised("Ambiguous: BASELINE arm but neither candidate looks tamper")

\* the A=TAMPER branch that guesses the first candidate when both are tamper
TamperBranchGuess(c1_t, c2_t) ==
    IF c1_t THEN Returned("QMSv5_01", "QMSv5_02", "A=TAMPER -> match=tamper")
    ELSE IF c2_t /\ ~c1_t THEN Returned("QMSv5_02", "QMSv5_01", "A=TAMPER -> match=tamper")
    ELSE Raised("Ambiguous: A is TAMPER but candidates not uniquely tamper")

TamperBranch(c1_t, c2_t) ==
    IF c1_t /\ ~c2_t THEN Returned("QMSv5_01", "QMSv5_02", "A=TAMPER -> match=tamper")
    ELSE IF c2_t /\ ~c1_t THEN Returned("QMSv5_02", "QMSv5_01", "A=TAMPER -> match=tamper")
    ELSE Raised("Ambiguous: A is TAMPER but candidates not uniquely tamper")

PcBranch(c1_t, c2_t, c1_pc, c2_pc) ==
    IF c1_pc /\ ~c2_pc THEN Returned("QMSv5_01", "QMSv5_02", "A=PC -> match=pc")
    ELSE IF c2_pc /\ ~c1_pc THEN Returned("QMSv5_02", "QMSv5_01", "A=PC -> match=pc")
    ELSE IF c1_t /\ ~c2_t THEN Returned("QMSv5_02", "QMSv5_01", "A=PC -> match=non-tamper fallback")
    ELSE IF c2_t /\ ~c1_t THEN Returned("QMSv5_01", "QMSv5_02", "A=PC -> match=non-tamper fallback")
    ELSE Raised("Ambiguous: A is PC but candidates not uniquely PC or tamper-distinguishable")

\* the resolver without the trimming of its three labels
DetermineUntrimmed(A_src, q1, q2) ==
    IF A_src = "" \/ q1 = "" \/ q2 = "" THEN Raised("Missing A_src or candidate src")
    ELSE LET a_kind == _a_type(A_src)
             c1_t   == _looks_tamper(q1)
             c2_t   == _looks_tamper(q2)
             c1_pc  == _looks_pc(q1)
             c2_pc  == _looks_pc(q2)
         IN  IF a_kind = "TAMPER" THEN TamperBranch(c1_t, c2_t)
             ELSE IF a_kind = "PC" THEN PcBranch(c1_t, c2_t, c1_pc, c2_pc)
             ELSE BaselineBranch(c1_t, c2_t)

determine_expected_match(A_src, q1, q2) ==
    LET a  == Strip(A_src)
        s1 == Strip(q1)
        s2 == Strip(q2)
    IN  IF a = "" \/ s1 = "" \/ s2 = "" THEN Raised("Missing A_src or candidate src")
        ELSE LET a_kind == _a_type(a)
                 c1_t   == _looks_tamper(s1)
                 c2_t   == _looks_tamper(s2)
                 c1_pc  == _looks_pc(s1)
                 c2_pc  == _looks_pc(s2)
             IN  IF a_kind = "TAMPER" THEN TamperBranch(c1_t, c2_t)
                 ELSE IF a_kind = "PC" THEN PcBranch(c1_t, c2_t, c1_pc, c2_pc)
                 ELSE BaselineBranch(c1_t, c2_t)

---------------------------------------------------------------------------
(* Resolver harness: one call of determine_expected_match on labels drawn  *)
(* from ResolverLabels.                                                    *)

ResolverLabels ==
    { "", " ", "BASELINE_A_SRC", "QMS_CANDIDATE_WORKING_TAMPER", "QMS_CANDIDATE_NORMAL",
      "cand_tamper ", "HMAC_PACKET", "PC_REEXPORT_A", "NODE_PC_PACKET", "PC_TAMPER_PACKET" }

NoResult == Raised("not called")

NoError == [type |-> "", msg |-> ""]

NoPut == [called |-> FALSE]

IdleMain ==
    /\ iiia_rows = <<>> /\ iv_rows = <<>> /\ pc_rows = <<>>
    /\ mapping = <<>> /\ last_put = NoPut /\ overridden = {}
    /\ comp_rows = <<>> /\ comp_i = 1 /\ out_rows = <<>> /\ missing_map = <<>>
    /\ files = <<>> /\ err = NoError /\ skipped = {} /\ schema_read = <<>>

InitResolve ==
    /\ pc = "call"
    /\ args \in ResolverLabels \X ResolverLabels \X ResolverLabels
    /\ result = NoResult
    /\ IdleMain

Resolve ==
    /\ pc = "call"
    /\ result' = determine_expected_match(args[1], args[2], args[3])
    /\ pc' = "returned"
    /\ UNCHANGED <<iiia_rows, iv_rows, pc_rows, mapping, last_put, overridden, comp_rows,
                   comp_i, out_rows, missing_map, files, err, skipped, schema_read, args>>

NextResolve == Resolve

SpecResolve == InitResolve /\ [][NextResolve]_vars

---------------------------------------------------------------------------
(* Classifier harness: one call of _a_type, with _looks_tamper and         *)
(* _looks_pc, on a label put together from marker and cue fragments.       *)

LabelHeads == { "", " ", "hmac_", "HMAC", "node3" }
LabelMarkers == { "", "Tamper", "WORKING_TAMPER", "TAMPE", "tam_per" }
LabelCues == { "", "_pc", "PC_", "pc_reexport", "PC-REEXPORT" }
LabelTails == { "", "packet", "_PACKET" }

ClassifierLabels ==
    { h \o m \o c \o t : h \in LabelHeads, m \in LabelMarkers, c \in LabelCues, t \in LabelTails }

Classified(label) ==
    [kind |-> _a_type(label), looks_tamper |-> _looks_tamper(label), looks_pc |-> _looks_pc(label)]

InitClassify ==
    /\ pc = "classify"
    /\ \E label \in ClassifierLabels : args = <<label, "", "">>
    /\ result = NoResult
    /\ IdleMain

Classify ==
    /\ pc = "classify"
    /\ result' = Classified(args[1])
    /\ pc' = "classified"
    /\ UNCHANGED <<iiia_rows, iv_rows, pc_rows, mapping, last_put, overridden, comp_rows,
                   comp_i, out_rows, missing_map, files, err, skipped, schema_read, args>>

NextClassify == Classify

SpecClassify == InitClassify /\ [][NextClassify]_vars

---------------------------------------------------------------------------
(* Blinding map parsing *)

MAP_SCHEMA == "SentinelQMSv5_BlindingMap@1.0"

\* x or y, for str values (a missing value is "")
OrElse(x, y) == IF x = "" THEN y ELSE x

\* the paths main() resolves from its arguments
stage_iiia == "stage_iiia_map.md"
stage_iv == "stage_iv_map.md"
node03_pc == "node03_pc_override.md"

sha256_file(p) == "sha256(" \o p \o ")"

_node_scope_from_job(job_id) ==
    IF job_id = "StageIV_Node02" THEN "Node02_HVT_A_COMPLETED"
    ELSE IF job_id = "StageIV_Node03" THEN "Node03_HVT_A_COMPLETED"
    ELSE IF job_id = "StageIIIA" THEN "ALL"
    ELSE "ALL"

ValueError(msg) == [type |-> "ValueError", msg |-> msg]

\* a loop body that calls the resolver before it looks at the arm's status
FlattenArmRowResolveFirst(job, a, source_path) ==
    LET job_id     == Get(job, "job_id", "")
        job_status == StrLower(OrElse(Get(job, "status", ""), "active"))
        node_scope == _node_scope_from_job(job_id)
        group      == norm_group(Get(a, "group", ""))
        a_status   == StrLower(OrElse(Get(a, "status", ""), OrElse(job_status, "active")))
        A_src      == Get(a, "A_src", "")
        q1         == Get(a, "QMSv5_01_src", "")
        q2         == Get(a, "QMSv5_02_src", "")
        r          == determine_expected_match(A_src, q1, q2)
        row        == [node_scope |-> node_scope, group |-> group, arm |-> a.arm,
                       status |-> IF a_status = "pending" THEN "pending" ELSE "active",
                       expected_match_candidate |-> IF a_status = "pending" THEN "" ELSE r.match,
                       expected_mismatch_candidate |-> IF a_status = "pending" THEN "" ELSE r.mismatch,
                       rule |-> IF a_status = "pending" THEN "" ELSE r.rule,
                       A_src |-> A_src, QMSv5_01_src |-> q1, QMSv5_02_src |-> q2,
                       map_job_id |-> job_id, map_source_file |-> source_path,
                       map_source_sha256 |-> sha256_file(source_path)]
    IN  IF ~r.ok
        THEN [ok |-> FALSE,
              error |-> ValueError(r.error \o " :: job_id=" \o job_id
                                   \o " node_scope=" \o node_scope \o " group=" \o group
                                   \o " arm=" \o a.arm \o " A_src=" \o A_src
                                   \o " QMSv5_01_src=" \o q1 \o " QMSv5_02_src=" \o q2)]
        ELSE [ok |-> TRUE, row |-> row]

\* the body of flatten_map's loop for arm a of job: the row appended, or the error raised
FlattenArmRow(job, a, source_path) ==
    LET job_id     == Get(job, "job_id", "")
        job_status == StrLower(OrElse(Get(job, "status", ""), "active"))
        node_scope == _node_scope_from_job(job_id)
        group      == norm_group(Get(a, "group", ""))
        arm        == a.arm
        a_status   == StrLower(OrElse(Get(a, "status", ""), OrElse(job_status, "active")))
        A_src      == Get(a, "A_src", "")
        q1         == Get(a, "QMSv5_01_src", "")
        q2         == Get(a, "QMSv5_02_src", "")
        r          == determine_expected_match(A_src, q1, q2)
    IN  IF a_status = "pending"
        THEN [ok |-> TRUE,
              row |-> [node_scope |-> node_scope, group |-> group, arm |-> arm,
                       status |-> "pending",
                       expected_match_candidate |-> "", expected_mismatch_candidate |-> "",
                       rule |-> "",
                       A_src |-> A_src, QMSv5_01_src |-> q1, QMSv5_02_src |-> q2,
                       map_job_id |-> job_id, map_source_file |-> source_path,
                       map_source_sha256 |-> sha256_file(source_path)]]
        ELSE IF ~r.ok
        THEN [ok |-> FALSE,
              error |-> ValueError(r.error \o " :: job_id=" \o job_id
                                   \o " node_scope=" \o node_scope \o " group=" \o group
                                   \o " arm=" \o arm \o " A_src=" \o A_src
                                   \o " QMSv5_01_src=" \o q1 \o " QMSv5_02_src=" \o q2)]
        ELSE [ok |-> TRUE,
              row |-> [node_scope |-> node_scope, group |-> group, arm |-> arm,
                       status |-> "active",
                       expected_match_candidate |-> r.match,
                       expected_mismatch_candidate |-> r.mismatch,
                       rule |-> r.rule,
                       A_src |-> A_src, QMSv5_01_src |-> q1, QMSv5_02_src |-> q2,
                       map_job_id |-> job_id, map_source_file |-> source_path,
                       map_source_sha256 |-> sha256_file(source_path)]]

\* the body of parse_pc_override_fragments' loop for fragment a
OverrideRow(a, pc_md_path) ==
    LET group == norm_group(Get(a, "group", ""))
        arm   == a.arm
        A_src == Get(a, "A_src", "")
        q1    == Get(a, "QMSv5_01_src", "")
        q2    == Get(a, "QMSv5_02_src", "")
        r     == determine_expected_match(A_src, q1, q2)
    IN  IF ~r.ok
        THEN [ok |-> FALSE,
              error |-> ValueError(r.error \o " :: job_id=StageIV_Node03_PC_OVERRIDE group=" \o group
                                   \o " arm=" \o arm \o " A_src=" \o A_src
                                   \o " QMSv5_01_src=" \o q1 \o " QMSv5_02_src=" \o q2)]
        ELSE [ok |-> TRUE,
              row |-> [node_scope |-> "Node03_HVT_A_COMPLETED", group |-> group, arm |-> arm,
                       status |-> "active",
                       expected_match_candidate |-> r.match,
                       expected_mismatch_candidate |-> r.mismatch,
                       rule |-> r.rule,
                       A_src |-> A_src, QMSv5_01_src |-> q1, QMSv5_02_src |-> q2,
                       map_job_id |-> "StageIV_Node03_PC_OVERRIDE",
                       map_source_file |-> pc_md_path,
                       map_source_sha256 |-> sha256_file(pc_md_path),
                       map_manual_override_flag |-> 1]]

---------------------------------------------------------------------------
(* Flattener harness: the body of flatten_map's loop on one arm of one job  *)

\* record r with field "status" set to st, or without it when st is "(none)"
WithStatus(r, st) ==
    IF st = "(none)" THEN r
    ELSE [k \in DOMAIN r \cup {"status"} |-> IF k = "status" THEN st ELSE r[k]]

JobStatuses == { "(none)", "", "pending", "Pending", "active" }

ArmStatuses == { "(none)", "", "pending", "PENDING", "Pending", " pending", "active", "draft" }

\* arms whose labels resolve, are ambiguous, are empty, or are missing
FlattenArms ==
    { [group |-> "IIIA_G", arm |-> "A1",
       A_src |-> "BASE_SRC", QMSv5_01_src |-> "C_OK", QMSv5_02_src |-> "C_TAMPER"],
      [group |-> "G", arm |-> "A2",
       A_src |-> "BASE_SRC", QMSv5_01_src |-> "C_OK", QMSv5_02_src |-> "C_OK"],
      [group |-> "G", arm |-> "A3",
       A_src |-> "", QMSv5_01_src |-> " ", QMSv5_02_src |-> "C_TAMPER"],
      [group |-> "G", arm |-> "A4"] }

FlattenInputs ==
    { <<WithStatus([job_id |-> j], js), WithStatus(a, as)>> :
        j \in {"StageIIIA", "StageIV_Node03"}, js \in JobStatuses,
        a \in FlattenArms, as \in ArmStatuses }

InitFlatten ==
    /\ pc = "flatten_arm"
    /\ args \in FlattenInputs
    /\ result = NoResult
    /\ IdleMain

FlattenOne ==
    /\ pc = "flatten_arm"
    /\ result' = FlattenArmRow(args[1], args[2], stage_iv)
    /\ pc' = "flattened"
    /\ UNCHANGED <<iiia_rows, iv_rows, pc_rows, mapping, last_put, overridden, comp_rows,
                   comp_i, out_rows, missing_map, files, err, skipped, schema_read, args>>

NextFlatten == FlattenOne

SpecFlatten == InitFlatten /\ [][NextFlatten]_vars

---------------------------------------------------------------------------
(* Merge into the mapping dictionary *)

RowKey(row) == <<row.node_scope, Get(row, "group", ""), Get(row, "arm", "")>>

KeyRepr(key) == "('" \o key[1] \o "', '" \o key[2] \o "', '" \o key[3] \o "')"

Stored(m, key, row) == [k \in DOMAIN m \cup {key} |-> IF k = key THEN row ELSE m[k]]

PutOk(m) == [ok |-> TRUE, mapping |-> m]

PutRaised(key) ==
    [ok |-> FALSE, error |-> ValueError("Conflicting active mappings for " \o KeyRepr(key))]

\* put as a last-writer-wins insertion: no conflict check
PutLastWins(m, row, force) == PutOk(Stored(m, RowKey(row), row))

\* put that keeps whatever row came first unless forced
PutFirstWins(m, row, force) ==
    IF RowKey(row) \notin DOMAIN m \/ force THEN PutOk(Stored(m, RowKey(row), row)) ELSE PutOk(m)

\* put without the forced branch
PutUnforced(m, row, force) ==
    LET key == RowKey(row)
    IN  IF key \notin DOMAIN m THEN PutOk(Stored(m, key, row))
        ELSE IF m[key].status = "pending" /\ row.status = "active" THEN PutOk(Stored(m, key, row))
        ELSE IF m[key].status = "active" /\ row.status = "active"
                /\ m[key].expected_match_candidate # row.expected_match_candidate
        THEN PutRaised(key)
        ELSE PutOk(m)

\* put that treats any second active row as a conflict
PutStrict(m, row, force) ==
    LET key == RowKey(row)
    IN  IF key \notin DOMAIN m THEN PutOk(Stored(m, key, row))
        ELSE IF force THEN PutOk(Stored(m, key, row))
        ELSE IF m[key].status = "pending" /\ row.status = "active" THEN PutOk(Stored(m, key, row))
        ELSE IF m[key].status = "active" /\ row.status = "active" THEN PutRaised(key)
        ELSE PutOk(m)

\* put that lets a pending row take the place of the row a key holds
PutPendingReplaces(m, row, force) ==
    LET key == RowKey(row)
    IN  IF key \notin DOMAIN m THEN PutOk(Stored(m, key, row))
        ELSE IF force THEN PutOk(Stored(m, key, row))
        ELSE IF m[key].status = "pending" /\ row.status = "active" THEN PutOk(Stored(m, key, row))
        ELSE IF m[key].status = "active" /\ row.status = "active"
                /\ m[key].expected_match_candidate # row.expected_match_candidate
        THEN PutRaised(key)
        ELSE IF row.status = "pending" THEN PutOk(Stored(m, key, row))
        ELSE PutOk(m)

\* put that checks two active rows against each other before it looks at force
PutConflictBeforeForce(m, row, force) ==
    LET key == RowKey(row)
    IN  IF key \notin DOMAIN m THEN PutOk(Stored(m, key, row))
        ELSE IF m[key].status = "active" /\ row.status = "active"
                /\ m[key].expected_match_candidate # row.expected_match_candidate
        THEN PutRaised(key)
        ELSE IF force THEN PutOk(Stored(m, key, row))
        ELSE IF m[key].status = "pending" /\ row.status = "active" THEN PutOk(Stored(m, key, row))
        ELSE PutOk(m)

\* put that also checks an unforced active row against the active rows that other
\* node scopes hold for its group and arm
PutAcrossScopes(m, row, force) ==
    LET key == RowKey(row)
    IN  IF ~force /\ row.status = "active"
           /\ \E k \in DOMAIN m :
                 /\ k[2] = key[2] /\ k[3] = key[3]
                 /\ m[k].status = "active"
                 /\ m[k].expected_match_candidate # row.expected_match_candidate
        THEN PutRaised(key)
        ELSE IF key \notin DOMAIN m THEN PutOk(Stored(m, key, row))
        ELSE IF force THEN PutOk(Stored(m, key, row))
        ELSE IF m[key].status = "pending" /\ row.status = "active" THEN PutOk(Stored(m, key, row))
        ELSE PutOk(m)

put(m, row, force) ==
    LET key == RowKey(row)
    IN  IF key \notin DOMAIN m THEN PutOk(Stored(m, key, row))
        ELSE IF force THEN PutOk(Stored(m, key, row))
        ELSE IF m[key].status = "pending" /\ row.status = "active" THEN PutOk(Stored(m, key, row))
        ELSE IF m[key].status = "active" /\ row.status = "active"
                /\ m[key].expected_match_candidate # row.expected_match_candidate
        THEN PutRaised(key)
        ELSE PutOk(m)

---------------------------------------------------------------------------
(* Reconciliation of the comparison records *)

SCRIPT_NAME == "qms_blinding_map_to_csv_and_merge_v5_1.py"
SCRIPT_VERSION == "5.1.0"

candidate_label_from_compare_folder(compare_folder) ==
    IF EndsWith(compare_folder, "_01") THEN "QMSv5_01"
    ELSE IF EndsWith(compare_folder, "_02") THEN "QMSv5_02"
    ELSE ""

\* key_node of comparison record r
KeyNode(r) ==
    <<Strip(Get(r, "node_id", "")), norm_group(Strip(Get(r, "group", ""))), Strip(Get(r, "arm", ""))>>

\* key_all of comparison record r
KeyAll(r) == <<"ALL", KeyNode(r)[2], KeyNode(r)[3]>>

\* a candidate label taken from the columns as they are, without trimming
CandidateLabelUntrimmed(r) ==
    LET explicit == Get(r, "candidate_label", "")
    IN  IF explicit = "" THEN candidate_label_from_compare_folder(Get(r, "compare_folder", ""))
        ELSE explicit

CandidateLabel(r) ==
    LET explicit == Strip(Get(r, "candidate_label", ""))
    IN  IF explicit = "" THEN candidate_label_from_compare_folder(Strip(Get(r, "compare_folder", "")))
        ELSE explicit

NoMapping == [status |-> "absent"]

\* a lookup that tries the wildcard key before the node key
LookupWildcardFirst(m, r) ==
    IF KeyAll(r) \in DOMAIN m THEN m[KeyAll(r)]
    ELSE IF KeyNode(r) \in DOMAIN m THEN m[KeyNode(r)]
    ELSE NoMapping

\* a lookup that goes on to the wildcard key when the node key's row is not active
LookupFirstActive(m, r) ==
    IF KeyNode(r) \in DOMAIN m /\ m[KeyNode(r)].status = "active" THEN m[KeyNode(r)]
    ELSE IF KeyAll(r) \in DOMAIN m THEN m[KeyAll(r)]
    ELSE IF KeyNode(r) \in DOMAIN m THEN m[KeyNode(r)]
    ELSE NoMapping

\* mapping.get(key_node) or mapping.get(key_all)
Lookup(m, r) ==
    IF KeyNode(r) \in DOMAIN m THEN m[KeyNode(r)]
    ELSE IF KeyAll(r) \in DOMAIN m THEN m[KeyAll(r)]
    ELSE NoMapping

\* a test that compares the status with the wrong case
HasActiveMappingCaseSlip(found) == found # NoMapping /\ found.status = "Active"

\* not (not m or m.get("status") != "active")
HasActiveMapping(found) == found # NoMapping /\ found.status = "active"

NewFields ==
    { "blinding_map_status", "expected_match_candidate", "expected_mismatch_candidate",
      "is_expected_match_candidate", "is_expected_mismatch_candidate",
      "observed_match_via_pass", "classification_correct", "blinding_map_rule",
      "blinding_map_source_file", "blinding_map_source_sha256", "blinding_map_job_id",
      "blinding_map_manual_override_flag", "blinding_parser_script", "blinding_parser_version" }

\* an enrichment that reads pass_fail without regard to case or surrounding blanks
EnrichedPassAnyCase(r, m) ==
    LET candidate_label         == CandidateLabel(r)
        is_expected_match       == IF candidate_label = m.expected_match_candidate THEN 1 ELSE 0
        is_expected_mismatch    == IF candidate_label = m.expected_mismatch_candidate THEN 1 ELSE 0
        observed_match_via_pass == IF StrUpper(Strip(Get(r, "pass_fail", ""))) = "PASS" THEN 1 ELSE 0
        classification_correct  == IF observed_match_via_pass = is_expected_match THEN 1 ELSE 0
        update ==
            [ blinding_map_status |-> Get(m, "status", ""),
              expected_match_candidate |-> m.expected_match_candidate,
              expected_mismatch_candidate |-> m.expected_mismatch_candidate,
              is_expected_match_candidate |-> is_expected_match,
              is_expected_mismatch_candidate |-> is_expected_mismatch,
              observed_match_via_pass |-> observed_match_via_pass,
              classification_correct |-> classification_correct,
              blinding_map_rule |-> Get(m, "rule", ""),
              blinding_map_source_file |-> Get(m, "map_source_file", ""),
              blinding_map_source_sha256 |-> Get(m, "map_source_sha256", ""),
              blinding_map_job_id |-> Get(m, "map_job_id", ""),
              blinding_map_manual_override_flag |-> Get(m, "map_manual_override_flag", 0),
              blinding_parser_script |-> SCRIPT_NAME,
              blinding_parser_version |-> SCRIPT_VERSION ]
    IN  [k \in DOMAIN r \cup NewFields |-> IF k \in NewFields THEN update[k] ELSE r[k]]

\* the dict main() builds for record r and its mapping row m
Enriched(r, m) ==
    LET candidate_label         == CandidateLabel(r)
        expected_match          == m.expected_match_candidate
        expected_mismatch       == m.expected_mismatch_candidate
        is_expected_match       == IF candidate_label = expected_match THEN 1 ELSE 0
        is_expected_mismatch    == IF candidate_label = expected_mismatch THEN 1 ELSE 0
        observed_match_via_pass == IF Get(r, "pass_fail", "") = "PASS" THEN 1 ELSE 0
        classification_correct  == IF observed_match_via_pass = is_expected_match THEN 1 ELSE 0
        update ==
            [ blinding_map_status |-> Get(m, "status", ""),
              expected_match_candidate |-> expected_match,
              expected_mismatch_candidate |-> expected_mismatch,
              is_expected_match_candidate |-> is_expected_match,
              is_expected_mismatch_candidate |-> is_expected_mismatch,
              observed_match_via_pass |-> observed_match_via_pass,
              classification_correct |-> classification_correct,
              blinding_map_rule |-> Get(m, "rule", ""),
              blinding_map_source_file |-> Get(m, "map_source_file", ""),
              blinding_map_source_sha256 |-> Get(m, "map_source_sha256", ""),
              blinding_map_job_id |-> Get(m, "map_job_id", ""),
              blinding_map_manual_override_flag |-> Get(m, "map_manual_override_flag", 0),
              blinding_parser_script |-> SCRIPT_NAME,
              blinding_parser_version |-> SCRIPT_VERSION ]
    IN  [k \in DOMAIN r \cup NewFields |-> IF k \in NewFields THEN update[k] ELSE r[k]]

\* tuple order of (node, group, arm) keys
KeyLess(a, b) ==
    \/ StrLess(a[1], b[1])
    \/ a[1] = b[1] /\ StrLess(a[2], b[2])
    \/ a[1] = b[1] /\ a[2] = b[2] /\ StrLess(a[3], b[3])

\* sorted(S) for a set of keys
RECURSIVE SortedKeys(_)
SortedKeys(S) ==
    IF S = {} THEN <<>>
    ELSE LET least == CHOOSE k \in S : \A o \in S \ {k} : KeyLess(k, o)
         IN  <<least>> \o SortedKeys(S \ {least})

Range(seq) == {seq[i] : i \in 1..Len(seq)}

\* the number of keys the failure message quotes: uniq[:8]
ExampleLimit == 8

Prefix(seq, n) == SubSeq(seq, 1, IF Len(seq) < n THEN Len(seq) ELSE n)

\* RuntimeError(f"Missing active blinding mappings for {len(uniq)} keys. Example: {uniq[:8]}")
MissingError(missing) ==
    LET uniq == SortedKeys(Range(missing))
    IN  [type |-> "RuntimeError", msg |-> "Missing active blinding mappings",
         nkeys |-> Len(uniq), example |-> Prefix(uniq, ExampleLimit)]

\* a table of every row of the mapping, pending ones included
ParsedRowsAnyStatus(m) ==
    LET keys == SortedKeys(DOMAIN m)
    IN  [i \in 1..Len(keys) |-> m[keys[i]]]

\* parsed_rows: the active rows of the mapping, sorted by key
ParsedRows(m) ==
    LET keys == SortedKeys({k \in DOMAIN m : m[k].status = "active"})
    IN  [i \in 1..Len(keys) |-> m[keys[i]]]

parsed_fields ==
    { "node_scope", "group", "arm", "status", "expected_match_candidate",
      "expected_mismatch_candidate", "rule", "A_src", "QMSv5_01_src", "QMSv5_02_src",
      "map_job_id", "map_source_file", "map_source_sha256", "map_manual_override_flag" }

\* what write_csv writes for rows under fieldnames
CsvRows(rows, fieldnames) == [i \in 1..Len(rows) |-> [k \in fieldnames |-> Get(rows[i], k, "")]]

---------------------------------------------------------------------------
(* Candidate-label harness: the candidate label main() computes for one     *)
(* comparison record.                                                       *)

NoColumn == "(none)"

ExplicitLabels ==
    { NoColumn, "", " ", "QMSv5_01", " QMSv5_02 ", "qmsv5_01", "_02", "other" }

CompareFolders ==
    { NoColumn, "", "COMPARE_A_vs_QMSv5_01", "COMPARE_A_vs_QMSv5_02", "COMPARE_A_vs_QMSv5_01 ",
      " X_02", "_01", "01", "X_01_", "X_03", "X_01_02", "X_0 1", "COMPARE_A_vs_QMSv5_2" }

\* a record with the columns that are given
LabelRecord(explicit, folder) ==
    LET cols == {"node_id"} \cup (IF explicit = NoColumn THEN {} ELSE {"candidate_label"})
                            \cup (IF folder = NoColumn THEN {} ELSE {"compare_folder"})
    IN  [k \in cols |-> IF k = "candidate_label" THEN explicit
                        ELSE IF k = "compare_folder" THEN folder
                        ELSE "Node03_HVT_A_COMPLETED"]

LabelInputs == { <<LabelRecord(x, f)>> : x \in ExplicitLabels, f \in CompareFolders }

InitLabel ==
    /\ pc = "label"
    /\ args \in LabelInputs
    /\ result = NoResult
    /\ IdleMain

LabelOne ==
    /\ pc = "label"
    /\ result' = CandidateLabel(args[1])
    /\ pc' = "labelled"
    /\ UNCHANGED <<iiia_rows, iv_rows, pc_rows, mapping, last_put, overridden, comp_rows,
                   comp_i, out_rows, missing_map, files, err, skipped, schema_read, args>>

NextLabel == LabelOne

SpecLabel == InitLabel /\ [][NextLabel]_vars

---------------------------------------------------------------------------
(* main(): the inputs it reads *)

\* what obj.get("schema") may give; None, printed as it is in the message, when the
\* document has no schema tag
SchemaTags ==
    { MAP_SCHEMA, "SentinelQMSv5_BlindingMap@0.9", "sentinelqmsv5_blindingmap@1.0", "", "None" }

\* (job, arm entry) pairs an authority document may hold: a wildcard-scope arm, and
\* for Node03 a pending arm, two resolvable arms that disagree, and an ambiguous one
Entries ==
    { <<[job_id |-> "StageIIIA"],
        [group |-> "IIIA_G", arm |-> "A1",
         A_src |-> "BASE_SRC", QMSv5_01_src |-> "C_OK", QMSv5_02_src |-> "C_TAMPER"]>>,
      <<[job_id |-> "StageIV_Node03"],
        [group |-> "IIIA_G", arm |-> "A1", status |-> "Pending"]>>,
      <<[job_id |-> "StageIV_Node03"],
        [group |-> "IIIA_G", arm |-> "A1",
         A_src |-> "BASE_SRC", QMSv5_01_src |-> "C_OK", QMSv5_02_src |-> "C_TAMPER"]>>,
      <<[job_id |-> "StageIV_Node03"],
        [group |-> "G", arm |-> "A1",
         A_src |-> "A_TAMPER", QMSv5_01_src |-> "C_OK", QMSv5_02_src |-> "c_tamper"]>>,
      <<[job_id |-> "StageIV_Node03"],
        [group |-> "G", arm |-> "A1",
         A_src |-> "BASE_SRC", QMSv5_01_src |-> "C_OK", QMSv5_02_src |-> "C_OK"]>> }

Fragments ==
    { [group |-> "G", arm |-> a,
       A_src |-> l[1], QMSv5_01_src |-> l[2], QMSv5_02_src |-> l[3]] :
        a \in {"A1", "A2"},
        l \in { <<"PC_REEXPORT_A", "PC_REEXPORT_1", "C_TAMPER">>,
                <<"A_TAMPER", "C_OK", "C_TAMPER">>,
                <<"BASE_SRC", "C_OK", "C_OK">> } }

Records ==
    { [node_id |-> "Node03_HVT_A_COMPLETED", group |-> "IIIA_G ", arm |-> "A1",
       compare_folder |-> "COMPARE_A_vs_QMSv5_01", pass_fail |-> "PASS"],
      [node_id |-> "Node03_HVT_A_COMPLETED", group |-> "G", arm |-> "A2",
       compare_folder |-> "COMPARE_A_vs_QMSv5_02", pass_fail |-> "FAIL"],
      [node_id |-> " Node02_HVT_A_COMPLETED", group |-> "G", arm |-> "A1",
       compare_folder |-> "COMPARE_A_vs_QMSv5_02", pass_fail |-> "PASS"],
      [node_id |-> "Node02_HVT_A_COMPLETED", group |-> "G", arm |-> "A0",
       compare_folder |-> "COMPARE_A_vs_QMSv5_01", pass_fail |-> "FAIL"] }

SeqsUpTo(S, n) == UNION {[1..k -> S] : k \in 0..n}

Csvs == SeqsUpTo(Records, MaxComp)

---------------------------------------------------------------------------
(* main(): its steps *)

Init ==
    /\ pc = "load_iiia"
    /\ IdleMain
    /\ args = <<"", "", "">>
    /\ result = NoResult

Fail(e) == pc' = "failed" /\ err' = e

\* the path main() gives to load_blinding_map_stage at this position
MapPath(at) == IF at = "load_iiia" THEN stage_iiia ELSE stage_iv

\* the tag read in the document at path p is on record
Read(reads, p, tag) == [q \in DOMAIN reads \cup {p} |-> IF q = p THEN tag ELSE reads[q]]

\* a loader that checks the schema of the primary map only
LoadStagePrimaryOnly(tags) ==
    /\ pc \in {"load_iiia", "load_iv"}
    /\ \E tag \in tags :
        /\ schema_read' = Read(schema_read, MapPath(pc), tag)
        /\ IF tag # MAP_SCHEMA /\ pc = "load_iiia"
           THEN Fail(ValueError("Unexpected schema in " \o MapPath(pc) \o ": " \o tag))
           ELSE pc' = (IF pc = "load_iiia" THEN "load_iv" ELSE "flatten_iiia") /\ err' = err
    /\ UNCHANGED <<iiia_rows, iv_rows, pc_rows, mapping, last_put, overridden, comp_rows,
                   comp_i, out_rows, missing_map, files, skipped, args, result>>

\* load_blinding_map_stage, for the primary and then the secondary map
LoadStage(tags) ==
    /\ pc \in {"load_iiia", "load_iv"}
    /\ \E tag \in tags :
        /\ schema_read' = Read(schema_read, MapPath(pc), tag)
        /\ IF tag # MAP_SCHEMA
           THEN Fail(ValueError("Unexpected schema in " \o MapPath(pc) \o ": " \o tag))
           ELSE pc' = (IF pc = "load_iiia" THEN "load_iv" ELSE "flatten_iiia") /\ err' = err
    /\ UNCHANGED <<iiia_rows, iv_rows, pc_rows, mapping, last_put, overridden, comp_rows,
                   comp_i, out_rows, missing_map, files, skipped, args, result>>

RowsRead == Len(iiia_rows) + Len(iv_rows) + Len(pc_rows)

\* the document flatten_map is walking
Doc(at) == IF at = "flatten_iiia" THEN stage_iiia ELSE stage_iv

\* a flatten_map that leaves out an arm the resolver fails on and goes on
FlattenArmBestEffort(entries) ==
    /\ pc \in {"flatten_iiia", "flatten_iv"}
    /\ RowsRead < MaxRows
    /\ \E e \in entries :
        LET res == FlattenArmRow(e[1], e[2], IF pc = "flatten_iiia" THEN stage_iiia ELSE stage_iv)
        IN  IF ~res.ok
            THEN /\ skipped' = skipped \cup {[doc |-> Doc(pc), what |-> "arm", json |-> e[2].arm]}
                 /\ UNCHANGED <<pc, err, iiia_rows, iv_rows>>
            ELSE /\ iiia_rows' = (IF pc = "flatten_iiia" THEN Append(iiia_rows, res.row) ELSE iiia_rows)
                 /\ iv_rows' = (IF pc = "flatten_iv" THEN Append(iv_rows, res.row) ELSE iv_rows)
                 /\ UNCHANGED <<pc, err, skipped>>
    /\ UNCHANGED <<pc_rows, mapping, last_put, overridden, comp_rows, comp_i, out_rows,
                   missing_map, files, schema_read, args, result>>

\* flatten_map: one iteration of its loop over the arms of the jobs; a failure of the
\* resolver is raised out of flatten_map, whose list of rows is lost with it
FlattenArm(entries) ==
    /\ pc \in {"flatten_iiia", "flatten_iv"}
    /\ RowsRead < MaxRows
    /\ \E e \in entries :
        LET res == FlattenArmRow(e[1], e[2], IF pc = "flatten_iiia" THEN stage_iiia ELSE stage_iv)
        IN  IF ~res.ok
            THEN /\ Fail(res.error)
                 /\ iiia_rows' = (IF pc = "flatten_iiia" THEN <<>> ELSE iiia_rows)
                 /\ iv_rows' = (IF pc = "flatten_iv" THEN <<>> ELSE iv_rows)
            ELSE /\ iiia_rows' = (IF pc = "flatten_iiia" THEN Append(iiia_rows, res.row) ELSE iiia_rows)
                 /\ iv_rows' = (IF pc = "flatten_iv" THEN Append(iv_rows, res.row) ELSE iv_rows)
                 /\ UNCHANGED <<pc, err>>
    /\ UNCHANGED <<pc_rows, mapping, last_put, overridden, comp_rows, comp_i, out_rows,
                   missing_map, files, skipped, schema_read, args, result>>

\* flatten_map returns its rows
FlattenEnd ==
    /\ pc \in {"flatten_iiia", "flatten_iv"}
    /\ pc' = (IF pc = "flatten_iiia" THEN "flatten_iv" ELSE "parse_pc")
    /\ UNCHANGED <<iiia_rows, iv_rows, pc_rows, mapping, last_put, overridden, comp_rows,
                   comp_i, out_rows, missing_map, files, err, skipped, schema_read, args, result>>

\* flatten_map has read nothing of its document yet
DocUntouched ==
    /\ (IF pc = "flatten_iiia" THEN iiia_rows ELSE iv_rows) = <<>>
    /\ \A s \in skipped : s.doc # Doc(pc)

\* JSON values that are not a list, and whether Python takes them for true
NonListValues ==
    { [json |-> "{}", truthy |-> FALSE], [json |-> "null", truthy |-> FALSE],
      [json |-> "{\"StageIIIA\": []}", truthy |-> TRUE], [json |-> "\"none\"", truthy |-> TRUE] }

\* flatten_map on a document whose "jobs" is not a list: (jobs or []) makes a false
\* value the empty list, any other value raises
FlattenJobs(values) ==
    /\ pc \in {"flatten_iiia", "flatten_iv"}
    /\ DocUntouched
    /\ \E v \in values :
        IF v.truthy
        THEN Fail(ValueError("jobs must be list")) /\ UNCHANGED skipped
        ELSE /\ pc' = (IF pc = "flatten_iiia" THEN "flatten_iv" ELSE "parse_pc")
             /\ skipped' = skipped \cup {[doc |-> Doc(pc), what |-> "jobs", json |-> v.json]}
             /\ err' = err
    /\ UNCHANGED <<iiia_rows, iv_rows, pc_rows, mapping, last_put, overridden, comp_rows,
                   comp_i, out_rows, missing_map, files, schema_read, args, result>>

\* elements the loops of flatten_map pass over with `continue`: a job that is not
\* an object, a job whose "arms" is not a list, an arm that is not an object
MalformedElements ==
    { [what |-> "job", json |-> "\"StageIV_Node03\""],
      [what |-> "arms", json |-> "{\"A1\": {}}"],
      [what |-> "arm", json |-> "\"A1\""] }

\* flatten_map: one iteration of a loop that ends in `continue` on a malformed element
FlattenContinue(elements) ==
    /\ pc \in {"flatten_iiia", "flatten_iv"}
    /\ \E el \in elements :
        skipped' = skipped \cup {[doc |-> Doc(pc), what |-> el.what, json |-> el.json]}
    /\ UNCHANGED <<pc, iiia_rows, iv_rows, pc_rows, mapping, last_put, overridden, comp_rows,
                   comp_i, out_rows, missing_map, files, err, schema_read, args, result>>

\* parse_pc_override_fragments: one iteration of its loop over the fragments; a
\* failure of the resolver is raised out of the function, whose list is lost with it
ParseFragment(frags) ==
    /\ pc = "parse_pc"
    /\ RowsRead < MaxRows
    /\ \E a \in frags :
        LET res == OverrideRow(a, node03_pc)
        IN  IF ~res.ok
            THEN Fail(res.error) /\ pc_rows' = <<>>
            ELSE pc_rows' = Append(pc_rows, res.row) /\ UNCHANGED <<pc, err>>
    /\ UNCHANGED <<iiia_rows, iv_rows, mapping, last_put, overridden, comp_rows, comp_i,
                   out_rows, missing_map, files, skipped, schema_read, args, result>>

\* parse_pc_override_fragments returns its rows, or finds no fragment at all
ParseEnd ==
    /\ pc = "parse_pc"
    /\ IF pc_rows = <<>>
       THEN Fail(ValueError("Could not extract PC override fragments"))
       ELSE pc' = "merge_iiia" /\ err' = err
    /\ UNCHANGED <<iiia_rows, iv_rows, pc_rows, mapping, last_put, overridden, comp_rows,
                   comp_i, out_rows, missing_map, files, skipped, schema_read, args, result>>

\* the rows the current merge loop has yet to give to put
Pending(at) == IF at = "merge_iiia" THEN iiia_rows ELSE IF at = "merge_iv" THEN iv_rows ELSE pc_rows

\* one iteration of a merge loop: put(r) for the maps, put(r, force=True) for the overrides
PutRow ==
    /\ pc \in {"merge_iiia", "merge_iv", "merge_pc"}
    /\ Pending(pc) # <<>>
    /\ LET row   == Head(Pending(pc))
           force == (pc = "merge_pc")
           res   == put(mapping, row, force)
       IN  /\ last_put' = [called |-> TRUE, row |-> row, force |-> force,
                            before |-> IF RowKey(row) \in DOMAIN mapping
                                       THEN mapping[RowKey(row)] ELSE NoMapping]
           /\ overridden' = (IF force THEN overridden \cup {RowKey(row)} ELSE overridden)
           /\ iiia_rows' = (IF pc = "merge_iiia" THEN Tail(iiia_rows) ELSE iiia_rows)
           /\ iv_rows' = (IF pc = "merge_iv" THEN Tail(iv_rows) ELSE iv_rows)
           /\ pc_rows' = (IF pc = "merge_pc" THEN Tail(pc_rows) ELSE pc_rows)
           /\ IF res.ok
              THEN mapping' = res.mapping /\ UNCHANGED <<pc, err>>
              ELSE Fail(res.error) /\ UNCHANGED mapping
    /\ UNCHANGED <<comp_rows, comp_i, out_rows, missing_map, files, skipped, schema_read, args, result>>

\* a merge loop ends and the next one starts
MergeNext ==
    /\ pc \in {"merge_iiia", "merge_iv", "merge_pc"}
    /\ Pending(pc) = <<>>
    /\ pc' = (IF pc = "merge_iiia" THEN "merge_iv" ELSE IF pc = "merge_iv" THEN "merge_pc" ELSE "read_comp")
    /\ UNCHANGED <<iiia_rows, iv_rows, pc_rows, mapping, last_put, overridden, comp_rows,
                   comp_i, out_rows, missing_map, files, err, skipped, schema_read, args, result>>

\* read_csv_rows(comp_csv), and the exit with status 2 on an empty file
ReadComparisons(csvs) ==
    /\ pc = "read_comp"
    /\ \E rows \in csvs :
        /\ comp_rows' = rows
        /\ IF rows = <<>>
           THEN Fail([type |-> "exit 2", msg |-> "ERROR: comparisons CSV has no rows"])
           ELSE pc' = "reconcile" /\ err' = err
    /\ UNCHANGED <<iiia_rows, iv_rows, pc_rows, mapping, last_put, overridden, comp_i,
                   out_rows, missing_map, files, skipped, schema_read, args, result>>

\* one iteration of the loop over comp_rows
ReconcileRecord ==
    /\ pc = "reconcile"
    /\ comp_i <= Len(comp_rows)
    /\ LET r == comp_rows[comp_i]
           m == Lookup(mapping, r)
       IN  IF ~HasActiveMapping(m)
           THEN missing_map' = Append(missing_map, KeyNode(r)) /\ UNCHANGED out_rows
           ELSE out_rows' = Append(out_rows, Enriched(r, m)) /\ UNCHANGED missing_map
    /\ comp_i' = comp_i + 1
    /\ UNCHANGED <<pc, iiia_rows, iv_rows, pc_rows, mapping, last_put, overridden, comp_rows,
                   files, err, skipped, schema_read, args, result>>

\* the loop ended and the files were written before the missing keys were looked at
CheckMissingAfterWrite ==
    /\ pc = "reconcile"
    /\ comp_i > Len(comp_rows)
    /\ files' = [n \in {"blinding_map_parsed.csv"} |-> CsvRows(ParsedRows(mapping), parsed_fields)]
    /\ IF missing_map # <<>> THEN Fail(MissingError(missing_map))
       ELSE pc' = "write_merged" /\ err' = err
    /\ UNCHANGED <<iiia_rows, iv_rows, pc_rows, mapping, last_put, overridden, comp_rows,
                   comp_i, out_rows, missing_map, skipped, schema_read, args, result>>

\* the loop ended without raising on the missing keys
CheckMissingIgnored ==
    /\ pc = "reconcile"
    /\ comp_i > Len(comp_rows)
    /\ pc' = "write_parsed"
    /\ UNCHANGED <<iiia_rows, iv_rows, pc_rows, mapping, last_put, overridden, comp_rows,
                   comp_i, out_rows, missing_map, files, err, skipped, schema_read, args, result>>

\* the loop ended: if missing_map: raise RuntimeError(...)
CheckMissing ==
    /\ pc = "reconcile"
    /\ comp_i > Len(comp_rows)
    /\ IF missing_map # <<>> THEN Fail(MissingError(missing_map))
       ELSE pc' = "write_parsed" /\ err' = err
    /\ UNCHANGED <<iiia_rows, iv_rows, pc_rows, mapping, last_put, overridden, comp_rows,
                   comp_i, out_rows, missing_map, files, skipped, schema_read, args, result>>

\* write_csv(out_dir / "blinding_map_parsed.csv", parsed_rows, parsed_fields)
WriteParsed ==
    /\ pc = "write_parsed"
    /\ files' = [n \in DOMAIN files \cup {"blinding_map_parsed.csv"} |->
                    IF n = "blinding_map_parsed.csv"
                    THEN CsvRows(ParsedRows(mapping), parsed_fields) ELSE files[n]]
    /\ pc' = "write_merged"
    /\ UNCHANGED <<iiia_rows, iv_rows, pc_rows, mapping, last_put, overridden, comp_rows,
                   comp_i, out_rows, missing_map, err, skipped, schema_read, args, result>>

\* write_csv(out_dir / "hvtA_comparisons__WITH_BLINDING.csv", out_rows, orig_fields + new_fields)
WriteMerged ==
    /\ pc = "write_merged"
    /\ files' = [n \in DOMAIN files \cup {"hvtA_comparisons__WITH_BLINDING.csv"} |->
                    IF n = "hvtA_comparisons__WITH_BLINDING.csv"
                    THEN CsvRows(out_rows, DOMAIN comp_rows[1] \cup NewFields) ELSE files[n]]
    /\ pc' = "done"
    /\ UNCHANGED <<iiia_rows, iv_rows, pc_rows, mapping, last_put, overridden, comp_rows,
                   comp_i, out_rows, missing_map, err, skipped, schema_read, args, result>>

Next ==
    \/ LoadStage(SchemaTags)
    \/ FlattenArm(Entries)
    \/ FlattenEnd
    \/ ParseFragment(Fragments)
    \/ ParseEnd
    \/ PutRow
    \/ MergeNext
    \/ ReadComparisons(Csvs)
    \/ ReconcileRecord
    \/ CheckMissing
    \/ WriteParsed
    \/ WriteMerged

Spec == Init /\ [][Next]_vars

---------------------------------------------------------------------------
(* main() on one override fragment and a comparisons CSV of many keys *)

ReportFragment ==
    [group |-> "G", arm |-> "A1",
     A_src |-> "A_TAMPER", QMSv5_01_src |-> "C_OK", QMSv5_02_src |-> "C_TAMPER"]

ReportRecord(arm) ==
    [node_id |-> "Node03_HVT_A_COMPLETED", group |-> "G", arm |-> arm,
     compare_folder |-> "COMPARE_A_vs_QMSv5_01", pass_fail |-> "PASS"]

\* ten records: one with a mapped key (A1), nine with distinct keys no source maps
ReportTable ==
    << ReportRecord("B5"), ReportRecord("B2"), ReportRecord("A1"), ReportRecord("B9"),
       ReportRecord("B1"), ReportRecord("B7"), ReportRecord("B3"), ReportRecord("B8"),
       ReportRecord("B4"), ReportRecord("B6") >>

\* the records of table at the indices in S, in table order
RECURSIVE SubList(_, _, _)
SubList(table, S, i) ==
    IF i > Len(table) THEN <<>>
    ELSE (IF i \in S THEN <<table[i]>> ELSE <<>>) \o SubList(table, S, i + 1)

\* a record of the table may also appear twice in a row
ReportCsvs ==
    {SubList(ReportTable, S, 1) : S \in SUBSET (1..Len(ReportTable))}
        \cup {<<ReportTable[i], ReportTable[j], ReportTable[i]>> : i, j \in 1..Len(ReportTable)}

NextReport ==
    \/ LoadStage({MAP_SCHEMA})
    \/ FlattenEnd
    \/ ParseFragment({ReportFragment})
    \/ ParseEnd
    \/ PutRow
    \/ MergeNext
    \/ ReadComparisons(ReportCsvs)
    \/ ReconcileRecord
    \/ CheckMissing
    \/ WriteParsed
    \/ WriteMerged

SpecReport == Init /\ [][NextReport]_vars

---------------------------------------------------------------------------
(* main() on authority documents that are not of the expected shape *)

\* the well-formed arm entries of the documents: the wildcard-scope arm
MalformedEntries == {e \in Entries : e[1].job_id = "StageIIIA"}

MalformedCsvs == {<<r>> : r \in {x \in Records : x.arm = "A1" /\ x.group = "IIIA_G "}}

NextMalformed ==
    \/ LoadStage({MAP_SCHEMA})
    \/ FlattenJobs(NonListValues)
    \/ FlattenContinue(MalformedElements)
    \/ FlattenArm(MalformedEntries)
    \/ FlattenEnd
    \/ ParseFragment({ReportFragment})
    \/ ParseEnd
    \/ PutRow
    \/ MergeNext
    \/ ReadComparisons(MalformedCsvs)
    \/ ReconcileRecord
    \/ CheckMissing
    \/ WriteParsed
    \/ WriteMerged

SpecMalformed == Init /\ [][NextMalformed]_vars

---------------------------------------------------------------------------
(* main() on one override fragment and comparisons CSVs of several headers *)

EnrichRecord(arm, compare_folder, pass_fail) ==
    [node_id |-> "Node03_HVT_A_COMPLETED", group |-> "G", arm |-> arm,
     compare_folder |-> compare_folder, pass_fail |-> pass_fail]

\* record r with the columns of extra added
WithColumns(r, extra) ==
    [k \in DOMAIN r \cup DOMAIN extra |-> IF k \in DOMAIN extra THEN extra[k] ELSE r[k]]

\* the records of four comparisons CSVs: one with the minimal header, one with a
\* candidate_label column, one with columns named like fields the reconciler
\* adds, one with an id column; A1 is the arm the override fragment maps
EnrichTables ==
    { { EnrichRecord("A1", "COMPARE_A_vs_QMSv5_01", "PASS"),
        EnrichRecord("A1 ", "COMPARE_A_vs_QMSv5_02", "FAIL"),
        EnrichRecord("A1", "COMPARE_A_vs_other", "PASS"),
        EnrichRecord("A9", "COMPARE_A_vs_QMSv5_01", "FAIL") },
      { WithColumns(EnrichRecord("A1", "COMPARE_A_vs_QMSv5_01", "PASS"),
                    [candidate_label |-> "QMSv5_02"]),
        WithColumns(EnrichRecord("A1", "COMPARE_A_vs_QMSv5_02", "FAIL"),
                    [candidate_label |-> " QMSv5_01 "]),
        WithColumns(EnrichRecord("A1", "COMPARE_A_vs_QMSv5_02", "PASS"),
                    [candidate_label |-> ""]) },
      { WithColumns(EnrichRecord("A1", "COMPARE_A_vs_QMSv5_01", "PASS"),
                    [expected_match_candidate |-> "QMSv5_01", classification_correct |-> "1"]),
        WithColumns(EnrichRecord("A1", "COMPARE_A_vs_QMSv5_02", "PASS"),
                    [expected_match_candidate |-> "QMSv5_02", classification_correct |-> ""]),
        WithColumns(EnrichRecord("A1", "COMPARE_A_vs_QMSv5_02", "FAIL"),
                    [expected_match_candidate |-> "", classification_correct |-> "0"]) },
      { WithColumns(EnrichRecord("A1", "COMPARE_A_vs_QMSv5_01", "FAIL"),
                    [hv_record_id |-> "HV_0001", candidate_label |-> "QMSv5_01"]),
        WithColumns(EnrichRecord("A1", "COMPARE_A_vs_QMSv5_02", "PASS"),
                    [hv_record_id |-> "HV_0002", candidate_label |-> "QMSv5_02"]),
        WithColumns(EnrichRecord("A1", "COMPARE_A_vs_QMSv5_02", "pass"),
                    [hv_record_id |-> " HV_0003", candidate_label |-> "qmsv5_02"]) } }

\* every row of a CSV has the columns of its header
EnrichCsvs == UNION {SeqsUpTo(table, MaxComp) : table \in EnrichTables}

NextEnrich ==
    \/ LoadStage({MAP_SCHEMA})
    \/ FlattenEnd
    \/ ParseFragment({ReportFragment})
    \/ ParseEnd
    \/ PutRow
    \/ MergeNext
    \/ ReadComparisons(EnrichCsvs)
    \/ ReconcileRecord
    \/ CheckMissing
    \/ WriteParsed
    \/ WriteMerged

SpecEnrich == Init /\ [][NextEnrich]_vars

---------------------------------------------------------------------------
(* qms_extract_hvtA_metadata_v5_3_1.py: the verdict signals of a comparison  *)
(* row. The HV metadata files are those whose schema, node folder, path      *)
(* fields, duration and list of compare artifacts pass the checks before     *)
(* line 366, and whose COMPARE_SUMMARY.json is on disk and parses; of a row  *)
(* only the columns the verdict signals fill are kept, and the table of      *)
(* artifacts is left out.                                                    *)

EMPTY_SHA256 == "e3b0c44298fc1c149afbf4c8996fb92427ae41e4649b934ca495991b7852b855"
SUMMARY_PASS == "HASH PARITY PASS"
SUMMARY_FAIL == "HASH PARITY FAIL"

\* values read from JSON
JsonNone == [type |-> "NoneType"]
JsonInt(n) == [type |-> "int", value |-> n]
JsonBool(b) == [type |-> "bool", value |-> b]

\* isinstance(v, int): a bool is an int
IsInstanceInt(v) == v.type \in {"int", "bool"}

\* isinstance(v, bool)
IsInstanceBool(v) == v.type = "bool"

\* v == 0
EqualsZero(v) == (v.type = "int" /\ v.value = 0) \/ (v.type = "bool" /\ v.value = FALSE)

\* v is True
IsTrue(v) == v.type = "bool" /\ v.value = TRUE

NoFile == "(no file)"

ExtractIssue(level, code) == [level |-> level, code |-> code]

\* the codes of the checks that fire, in the order of the source
Fired(checks) == SelectSeq(checks, LAMBDA c : c # "")

\* the summary counts and the fingerprint satisfy the PASS criteria
PassCriteria(hv) ==
    EqualsZero(hv.missing_count) /\ EqualsZero(hv.extras_count) /\ IsTrue(hv.match)

\* the checks of the summary: result, types, empty hashes, counts
SummaryChecks(hv, pass_fail, missing_empty, extras_empty) ==
    Fired(<<
          IF hv.summary_result \notin {SUMMARY_PASS, SUMMARY_FAIL}
          THEN "SUMMARY_RESULT_UNEXPECTED" ELSE "",
          IF ~IsInstanceInt(hv.missing_count) \/ ~IsInstanceInt(hv.extras_count)
          THEN "SUMMARY_COUNTS_TYPE" ELSE "",
          IF ~IsInstanceBool(hv.match) THEN "SUMMARY_FINGERPRINT_MATCH_TYPE" ELSE "",
          IF pass_fail = "PASS" /\ ~(missing_empty = 1 /\ extras_empty = 1)
          THEN "EMPTY_HASH_INCONSISTENT" ELSE "",
          IF pass_fail = "FAIL" /\ (missing_empty = 1 /\ extras_empty = 1)
          THEN "EMPTY_HASH_INCONSISTENT" ELSE "",
          IF pass_fail = "PASS" /\ ~PassCriteria(hv) THEN "SUMMARY_COUNTS_INCONSISTENT" ELSE "",
          IF pass_fail = "FAIL" /\ PassCriteria(hv) THEN "SUMMARY_COUNTS_INCONSISTENT" ELSE "" >>)

\* the ESF file looked for: under match/ after a PASS, in the arm folder after a FAIL
_find_esf_equivalence_json(hv, pass_fail) ==
    IF pass_fail = "PASS" THEN [file |-> hv.esf_at_match, rule |-> "PASS->arm/match"]
    ELSE IF pass_fail = "FAIL" THEN [file |-> hv.esf_at_root, rule |-> "FAIL->arm/root"]
    ELSE [file |-> NoFile, rule |-> "NA"]

NoEsfMatch == -1

EsfMatch(esf_equiv_result) ==
    IF esf_equiv_result = "ESF SET EQUIVALENT" THEN 1
    ELSE IF esf_equiv_result = "ESF SET NOT EQUIVALENT" THEN 0
    ELSE NoEsfMatch

\* ESF checks that let a FAIL pass whatever the ESF result says
EsfChecksPassOnly(pass_fail, esf_equiv_result) ==
    Fired(<<
      IF EsfMatch(esf_equiv_result) = NoEsfMatch THEN "ESF_RESULT_UNEXPECTED" ELSE "",
      IF pass_fail = "PASS" /\ EsfMatch(esf_equiv_result) # 1 THEN "ESF_INCONSISTENT" ELSE "" >>)

\* the checks of the ESF result against the summary's PASS/FAIL
EsfChecks(pass_fail, esf_equiv_result) ==
    Fired(<<
      IF EsfMatch(esf_equiv_result) = NoEsfMatch THEN "ESF_RESULT_UNEXPECTED" ELSE "",
      IF pass_fail = "PASS" /\ EsfMatch(esf_equiv_result) # 1 THEN "ESF_INCONSISTENT" ELSE "",
      IF pass_fail = "FAIL" /\ EsfMatch(esf_equiv_result) # 0 THEN "ESF_INCONSISTENT" ELSE "" >>)

Errors(codes) == [i \in 1..Len(codes) |-> ExtractIssue("ERROR", codes[i])]

\* _err in strict mode: the issue is recorded and RuntimeError is raised
StrictStop(code) ==
    [kind |-> "raise", error |-> [type |-> "RuntimeError", msg |-> code],
     issues |-> <<ExtractIssue("ERROR", code)>>]

\* an exception that is not of extract's making
Crash(type, codes) ==
    [kind |-> "raise", error |-> [type |-> type, msg |-> ""], issues |-> Errors(codes)]

\* the body of extract's loop for one HV metadata file
ExtractFile(hv, strict) ==
    LET missing_empty == IF StrLower(hv.missing_sha) = EMPTY_SHA256 THEN 1 ELSE 0
        extras_empty  == IF StrLower(hv.extras_sha) = EMPTY_SHA256 THEN 1 ELSE 0
        pass_fail == IF hv.summary_result = SUMMARY_PASS THEN "PASS" ELSE "FAIL"
        summary   == SummaryChecks(hv, pass_fail, missing_empty, extras_empty)
        esf       == _find_esf_equivalence_json(hv, pass_fail)
        esf_codes == EsfChecks(pass_fail, esf.file)
        row ==
            [ hv_metadata_relpath |-> hv.relpath,
              missing_global_sha256 |-> hv.missing_sha,
              extras_global_sha256 |-> hv.extras_sha,
              pass_fail |-> pass_fail,
              summary_result |-> hv.summary_result,
              missing_count_summary |-> hv.missing_count,
              extras_count_summary |-> hv.extras_count,
              fingerprint_match |-> hv.match,
              missing_empty |-> missing_empty,
              extras_empty |-> extras_empty,
              esf_equiv_result |-> esf.file,
              esf_match |-> EsfMatch(esf.file),
              esf_mapping_rule |-> esf.rule ]
    IN  IF strict /\ summary # <<>> THEN StrictStop(summary[1])
        ELSE IF hv.missing_count.type = "NoneType" \/ hv.extras_count.type = "NoneType"
        THEN Crash("TypeError", summary)
        ELSE IF esf.file = NoFile
        THEN IF strict THEN StrictStop("ESF_NOT_FOUND")
             ELSE Crash("AttributeError", summary \o <<"ESF_NOT_FOUND">>)
        ELSE IF strict /\ esf_codes # <<>> THEN StrictStop(esf_codes[1])
        ELSE [kind |-> "row", row |-> row, issues |-> Errors(summary \o esf_codes)]

\* comparisons.sort(...): the rows here differ in hv_metadata_relpath only
RECURSIVE SortedComparisons(_)
SortedComparisons(rows) ==
    IF rows = <<>> THEN <<>>
    ELSE LET i == CHOOSE i \in 1..Len(rows) :
                    \A j \in 1..Len(rows) :
                       ~StrLess(rows[j].hv_metadata_relpath, rows[i].hv_metadata_relpath)
         IN  <<rows[i]>> \o SortedComparisons([j \in 1..(Len(rows) - 1) |->
                                                  IF j < i THEN rows[j] ELSE rows[j + 1]])

RECURSIVE ExtractLoop(_, _, _, _)
ExtractLoop(hv_files, strict, comparisons, issues) ==
    IF hv_files = <<>>
    THEN [ok |-> TRUE, comparisons |-> SortedComparisons(comparisons), issues |-> issues]
    ELSE LET one == ExtractFile(Head(hv_files), strict)
         IN  IF one.kind = "raise"
             THEN [ok |-> FALSE, error |-> one.error, issues |-> issues \o one.issues]
             ELSE ExtractLoop(Tail(hv_files), strict, Append(comparisons, one.row),
                              issues \o one.issues)

\* extract(root, strict) on the HV metadata files found under root
extract(hv_files, strict) ==
    IF hv_files = <<>>
    THEN [ok |-> TRUE, comparisons |-> <<>>, issues |-> <<ExtractIssue("ERROR", "NO_FILES")>>]
    ELSE ExtractLoop(hv_files, strict, <<>>, <<>>)

OtherSha256 == "BA7816BF8F01CFEA414140DE5DAE2223B00361A396177A9CB410FF61F20015AD"

\* a file whose signals all say PASS, found before the others
GoodFile ==
    [relpath |-> "Node02/G/A1/COMPARE_A_vs_QMSv5_01/HV_METADATA_QMSv5___1.json",
     missing_sha |-> EMPTY_SHA256, extras_sha |-> EMPTY_SHA256,
     summary_result |-> SUMMARY_PASS,
     missing_count |-> JsonInt(0), extras_count |-> JsonInt(0), match |-> JsonBool(TRUE),
     esf_at_match |-> "ESF SET EQUIVALENT", esf_at_root |-> NoFile]

HvFiles ==
    [relpath : {"Node03/G/A1/COMPARE_A_vs_QMSv5_02/HV_METADATA_QMSv5___1.json"},
     missing_sha : {EMPTY_SHA256, StrUpper(EMPTY_SHA256), OtherSha256},
     extras_sha : {EMPTY_SHA256, OtherSha256},
     summary_result : {SUMMARY_PASS, SUMMARY_FAIL, "HASH PARITY UNKNOWN"},
     missing_count : {JsonInt(0), JsonInt(2), JsonNone},
     extras_count : {JsonInt(0), JsonInt(1)},
     match : {JsonBool(TRUE), JsonBool(FALSE), JsonNone},
     esf_at_match : {NoFile, "ESF SET EQUIVALENT", "ESF SET NOT EQUIVALENT"},
     esf_at_root : {NoFile, "ESF SET EQUIVALENT", "ESF SET NOT EQUIVALENT", "ESF SET UNKNOWN"}]

\* the files under root, in the order of _iter_hv_metadata_files
HvTrees == {<<>>} \cup {<<hv>> : hv \in HvFiles} \cup {<<GoodFile, hv>> : hv \in HvFiles}

InitExtract ==
    /\ pc = "extract"
    /\ \E strict \in BOOLEAN, hv_files \in HvTrees : args = <<strict, hv_files>>
    /\ result = NoResult
    /\ IdleMain

\* main: comparisons, artifacts_rows, issues = extract(root, strict=strict)
ExtractCall ==
    /\ pc = "extract"
    /\ result' = extract(args[2], args[1])
    /\ pc' = "extracted"
    /\ UNCHANGED <<iiia_rows, iv_rows, pc_rows, mapping, last_put, overridden, comp_rows,
                   comp_i, out_rows, missing_map, files, err, skipped, schema_read, args>>

\* main after extract: a RuntimeError leaves no row and one STRICT_STOP issue; the
\* CSV and the log are written; the exit status is 1 when an issue is an error
ExtractWrite ==
    /\ pc = "extracted"
    /\ IF ~result.ok /\ result.error.type # "RuntimeError"
       THEN Fail(result.error) /\ files' = files
       ELSE LET comparisons == IF result.ok THEN result.comparisons ELSE <<>>
                issues      == IF result.ok THEN result.issues
                               ELSE <<ExtractIssue("ERROR", "STRICT_STOP")>>
            IN  /\ files' = [n \in {"hvtA_comparisons.csv", "hvtA_extract_log.ndjson"} |->
                                IF n = "hvtA_comparisons.csv" THEN comparisons ELSE issues]
                /\ pc' = "done"
                /\ err' = IF \E i \in 1..Len(issues) : issues[i].level = "ERROR"
                          THEN [type |-> "exit 1", msg |-> "ERRORS"] ELSE NoError
    /\ UNCHANGED <<iiia_rows, iv_rows, pc_rows, mapping, last_put, overridden, comp_rows,
                   comp_i, out_rows, missing_map, skipped, schema_read, args, result>>

NextExtract ==
    \/ ExtractCall
    \/ ExtractWrite

SpecExtract == InitExtract /\ [][NextExtract]_vars

---------------------------------------------------------------------------
(* Claims about determine_expected_match (checked under SpecResolve) *)

Blank(s) == Strip(s) = ""

ExactlyOneTamper == _looks_tamper(args[2]) # _looks_tamper(args[3])

\* what the A=BASELINE rule promises: the non-tamper candidate matches
BaselineAnswer ==
    IF _looks_tamper(args[2])
    THEN Returned("QMSv5_02", "QMSv5_01", "A=BASELINE -> match=non-tamper")
    ELSE Returned("QMSv5_01", "QMSv5_02", "A=BASELINE -> match=non-tamper")

\* what the A=TAMPER rule promises: the tamper candidate matches
TamperAnswer ==
    IF _looks_tamper(args[2])
    THEN Returned("QMSv5_01", "QMSv5_02", "A=TAMPER -> match=tamper")
    ELSE Returned("QMSv5_02", "QMSv5_01", "A=TAMPER -> match=tamper")

\* C9 as stated: for all non-empty labels with a BASELINE reference, exactly one
\* TAMPER candidate gives (non-tamper, tamper, 'A=BASELINE -> match=non-tamper'),
\* and the call fails when neither or both candidates are TAMPER.
C9_AsStated ==
    (pc = "returned" /\ args[1] # "" /\ args[2] # "" /\ args[3] # ""
        /\ _a_type(args[1]) = "BASELINE")
    => IF ExactlyOneTamper THEN result = BaselineAnswer ELSE ~result.ok

\* C9 amended: the same for labels that are non-empty after trimming whitespace
\* (a whitespace-only label fails as a missing one does); the example of the
\* claim resolves to QMSv5_02.
C9_BaselineRule ==
    /\ (pc = "returned" /\ ~Blank(args[1]) /\ ~Blank(args[2]) /\ ~Blank(args[3])
            /\ _a_type(args[1]) = "BASELINE")
       => IF ExactlyOneTamper THEN result = BaselineAnswer
          ELSE result = Raised("Ambiguous: BASELINE arm but neither candidate looks tamper")
    /\ (pc = "returned"
            /\ args = <<"BASELINE_A_SRC", "QMS_CANDIDATE_WORKING_TAMPER", "QMS_CANDIDATE_NORMAL">>)
       => result.ok /\ result.match = "QMSv5_02"

C9_Witness ==
    /\ pc = "returned"
    /\ args = <<"BASELINE_A_SRC", "QMS_CANDIDATE_WORKING_TAMPER", "QMS_CANDIDATE_NORMAL">>
    /\ result = Returned("QMSv5_02", "QMSv5_01", "A=BASELINE -> match=non-tamper")

\* C10 as stated: with a TAMPER reference the candidate that alone is TAMPER is
\* the expected match, and the call fails when both or neither candidate is TAMPER.
C10_AsStated ==
    (pc = "returned" /\ _a_type(args[1]) = "TAMPER")
    => IF ExactlyOneTamper THEN result = TamperAnswer ELSE ~result.ok

\* C10 amended: that holds when neither candidate label is empty or
\* whitespace-only, the failure being the 'Ambiguous: A is TAMPER' error; with an
\* empty or whitespace-only candidate the call fails with the missing-input error.
C10_TamperRule ==
    (pc = "returned" /\ _a_type(args[1]) = "TAMPER")
    => IF Blank(args[2]) \/ Blank(args[3]) THEN result = Raised("Missing A_src or candidate src")
       ELSE IF ExactlyOneTamper THEN result = TamperAnswer
       ELSE result = Raised("Ambiguous: A is TAMPER but candidates not uniquely tamper")

C10_Witness ==
    /\ pc = "returned"
    /\ args = <<"QMS_CANDIDATE_WORKING_TAMPER", "QMS_CANDIDATE_NORMAL", "cand_tamper ">>
    /\ result = Returned("QMSv5_02", "QMSv5_01", "A=TAMPER -> match=tamper")

\* the kind of a candidate label under the classifier's priority order
Kind(label) == _a_type(label)

ExactlyOnePc == (Kind(args[2]) = "PC") # (Kind(args[3]) = "PC")

ExactlyOneTamperKind == (Kind(args[2]) = "TAMPER") # (Kind(args[3]) = "TAMPER")

\* C11: with a POSITIVE_CONTROL reference (and no label empty or whitespace-only),
\* the expected match is the candidate whose kind alone is POSITIVE_CONTROL, a
\* candidate with the tamper marker being of kind TAMPER whatever cue it holds;
\* when neither or both are POSITIVE_CONTROL and exactly one is TAMPER, the
\* expected match is the candidate that is not TAMPER; otherwise the call fails.
C11_PcRule ==
    (pc = "returned" /\ ~Blank(args[1]) /\ ~Blank(args[2]) /\ ~Blank(args[3])
        /\ Kind(Strip(args[1])) = "PC")
    => IF ExactlyOnePc
       THEN result.ok /\ result.match = (IF Kind(args[2]) = "PC" THEN "QMSv5_01" ELSE "QMSv5_02")
       ELSE IF ExactlyOneTamperKind
       THEN result.ok /\ result.match = (IF Kind(args[2]) = "TAMPER" THEN "QMSv5_02" ELSE "QMSv5_01")
       ELSE ~result.ok

\* C12: a call with a reference or candidate label that is missing, empty or
\* whitespace-only raises the missing-input error, whatever the other labels
\* would classify as, and returns no mapping.
C12_BlankLabelFails ==
    (pc = "returned" /\ (Blank(args[1]) \/ Blank(args[2]) \/ Blank(args[3])))
    => result = Raised("Missing A_src or candidate src")

\* a whitespace-only candidate beside labels that would otherwise resolve
C12_Witness ==
    /\ pc = "returned"
    /\ args = <<"BASELINE_A_SRC", "QMS_CANDIDATE_WORKING_TAMPER", " ">>
    /\ result = Raised("Missing A_src or candidate src")

---------------------------------------------------------------------------
(* Claims about the classifier (checked under SpecClassify) *)

\* pat, given in upper case, occurs in s in whatever case
HoldsNoCase(s, pat) ==
    \E i \in 1..(Len(s) - Len(pat) + 1) :
        \A j \in 1..Len(pat) : UpChar(Char(s, i + j - 1)) = Char(pat, j)

\* C13: every label, the empty one included, classifies to exactly one of TAMPER,
\* PC and BASELINE; a label holding 'TAMPER' in whatever case is TAMPER whatever
\* else it holds; a label holding 'HMAC' and no tamper marker is not TAMPER;
\* BASELINE is the answer exactly when neither the tamper marker nor a
\* positive-control cue matches.
C13_ClassifierTotalOrdered ==
    pc = "classified"
    => /\ result.kind \in {"TAMPER", "PC", "BASELINE"}
       /\ HoldsNoCase(args[1], "TAMPER") => result.kind = "TAMPER"
       /\ (HoldsNoCase(args[1], "HMAC") /\ ~HoldsNoCase(args[1], "TAMPER"))
          => result.kind # "TAMPER"
       /\ result.kind = "BASELINE" <=> (~result.looks_tamper /\ ~result.looks_pc)
       /\ result.looks_tamper <=> HoldsNoCase(args[1], "TAMPER")
       /\ args[1] = "" => result.kind = "BASELINE"

\* a label with the tamper marker in mixed case and a positive-control cue
C13_Witness ==
    /\ pc = "classified"
    /\ args[1] = "hmac_Tamperpc_reexport_PACKET"
    /\ result = [kind |-> "TAMPER", looks_tamper |-> TRUE, looks_pc |-> TRUE]

---------------------------------------------------------------------------
(* Claims about flatten_map's loop body (checked under SpecFlatten) *)

\* s is 'pending' in whatever case
IsPendingWord(s) ==
    Len(s) = Len("PENDING") /\ \A j \in 1..Len(s) : UpChar(Char(s, j)) = Char("PENDING", j)

HasStatus(r) == "status" \in DOMAIN r /\ r.status # ""

\* the arm's own status, or the owning job's status when the arm has none
StatusOf(job, a) ==
    IF HasStatus(a) THEN a.status ELSE IF HasStatus(job) THEN job.status ELSE "active"

\* C21: for an arm whose status (its own, or its job's when it has none) is
\* 'pending' in whatever case, the loop body gives a pending row with empty
\* expected match, expected mismatch and rule, whatever its labels are; every
\* other arm goes through the resolver: an active row with the resolver's answer,
\* or the resolver's failure.
C21_PendingNotResolved ==
    pc = "flattened"
    => LET job == args[1]
           a   == args[2]
           r   == determine_expected_match(Get(a, "A_src", ""), Get(a, "QMSv5_01_src", ""),
                                          Get(a, "QMSv5_02_src", ""))
       IN  IF IsPendingWord(StatusOf(job, a))
           THEN /\ result.ok
                /\ result.row.status = "pending"
                /\ result.row.expected_match_candidate = ""
                /\ result.row.expected_mismatch_candidate = ""
                /\ result.row.rule = ""
           ELSE IF r.ok
           THEN /\ result.ok
                /\ result.row.status = "active"
                /\ result.row.expected_match_candidate = r.match
                /\ result.row.expected_mismatch_candidate = r.mismatch
                /\ result.row.rule = r.rule
           ELSE ~result.ok /\ StartsWith(result.error.msg, r.error)

\* an arm without a status, under a pending job, with labels that do not resolve
C21_Witness ==
    /\ pc = "flattened"
    /\ args[1] = [job_id |-> "StageIV_Node03", status |-> "Pending"]
    /\ args[2] = [group |-> "G", arm |-> "A2",
                  A_src |-> "BASE_SRC", QMSv5_01_src |-> "C_OK", QMSv5_02_src |-> "C_OK"]
    /\ result.ok /\ result.row.status = "pending" /\ result.row.rule = ""

---------------------------------------------------------------------------
(* Claims about flatten_map (checked under Spec) *)

\* the run ended on a failure of determine_expected_match
ResolverFailure ==
    /\ pc = "failed" /\ err.type = "ValueError"
    /\ (StartsWith(err.msg, "Ambiguous") \/ StartsWith(err.msg, "Missing A_src"))

\* the step is flatten_map raising out of the document at position at: no row of
\* that document is left, and nothing was merged
FlattenAborts(at) ==
    /\ err'.type = "ValueError"
    /\ (IF at = "flatten_iiia" THEN iiia_rows' ELSE iv_rows') = <<>>
    /\ mapping' = <<>> /\ ~last_put'.called

\* the run ended on a resolver failure inside flatten_map (not in an override fragment)
FlattenRaised ==
    ResolverFailure /\ ~Contains(err.msg, "job_id=StageIV_Node03_PC_OVERRIDE")

\* C22: an arm on which the resolver fails is never passed over: flatten_map
\* raises on it, the rows it had built for that document are gone with it, and
\* nothing is merged; a run that ended on a resolver failure of flatten_map has
\* merged no row and written no file.
C22_FlattenFailClosed ==
    /\ [](FlattenRaised
          => /\ iv_rows = <<>> /\ pc_rows = <<>>
             /\ mapping = <<>> /\ ~last_put.called /\ DOMAIN files = {})
    /\ [][/\ (pc \in {"flatten_iiia", "flatten_iv"} /\ pc' = "failed") => FlattenAborts(pc)
          /\ \A s \in skipped' : s.what # "arm"]_vars

\* the secondary map failed on an arm after the primary map had been flattened
C22_Witness ==
    /\ ResolverFailure
    /\ Contains(err.msg, " :: job_id=StageIV_Node03 ")
    /\ iiia_rows # <<>> /\ iv_rows = <<>>
    /\ mapping = <<>> /\ ~last_put.called

---------------------------------------------------------------------------
(* Claims about the merge (checked under Spec) *)

UnforcedPutDue == pc \in {"merge_iiia", "merge_iv"} /\ Pending(pc) # <<>>

NextRow == Head(Pending(pc))

Held(key) == IF key \in DOMAIN mapping THEN mapping[key] ELSE NoMapping

\* C1: an unforced active row for a key whose current row is active with another
\* expected_match_candidate makes put raise 'Conflicting active mappings for <key>'
\* at once, and the mapping is left as it was.
C1_ConflictFails ==
    [][ ( /\ UnforcedPutDue
          /\ NextRow.status = "active"
          /\ Held(RowKey(NextRow)).status = "active"
          /\ Held(RowKey(NextRow)).expected_match_candidate # NextRow.expected_match_candidate )
        => ( /\ pc' = "failed"
             /\ err' = ValueError("Conflicting active mappings for " \o KeyRepr(RowKey(NextRow)))
             /\ mapping' = mapping ) ]_vars

\* the conflict was raised after a row for another key had been inserted
C1_Witness ==
    /\ pc = "failed"
    /\ Contains(err.msg, "Conflicting active mappings")
    /\ last_put.called /\ ~last_put.force
    /\ last_put.row.status = "active" /\ last_put.before.status = "active"
    /\ last_put.before.expected_match_candidate # last_put.row.expected_match_candidate
    /\ Cardinality(DOMAIN mapping) >= 2

\* C2: an unforced active row put onto a pending row replaces it without error,
\* and a key that holds an active row keeps holding an active row.
C2_ActiveReplacesPending ==
    [][ /\ ( /\ UnforcedPutDue
             /\ NextRow.status = "active"
             /\ Held(RowKey(NextRow)).status = "pending" )
           => ( /\ pc' = pc /\ err' = NoError
                /\ RowKey(NextRow) \in DOMAIN mapping'
                /\ mapping'[RowKey(NextRow)] = NextRow )
        /\ \A k \in DOMAIN mapping :
             mapping[k].status = "active"
             => k \in DOMAIN mapping' /\ mapping'[k].status = "active" ]_vars

C2_Witness ==
    /\ pc \in {"merge_iiia", "merge_iv"}
    /\ last_put.called /\ ~last_put.force
    /\ last_put.row.status = "active" /\ last_put.before.status = "pending"
    /\ mapping[RowKey(last_put.row)] = last_put.row

IsOverrideRow(row) ==
    /\ Get(row, "map_manual_override_flag", 0) = 1
    /\ row.map_job_id = "StageIV_Node03_PC_OVERRIDE"

\* C3: every key an override fragment was applied to holds an override row, during
\* the rest of the merge and after it; a forced put stores its row and raises
\* nothing; no unforced put follows a forced one.
C3_OverrideWins ==
    /\ \A k \in overridden : k \in DOMAIN mapping /\ IsOverrideRow(mapping[k])
    /\ (last_put.called /\ last_put.force)
       => /\ mapping[RowKey(last_put.row)] = last_put.row
          /\ ~Contains(err.msg, "Conflicting active mappings")
    /\ pc = "merge_pc" => err = NoError
    /\ pc \in {"merge_iiia", "merge_iv"} => overridden = {}

\* the merge ended after an override replaced an active row it disagrees with
C3_Witness ==
    /\ pc = "read_comp"
    /\ last_put.called /\ last_put.force
    /\ last_put.before.status = "active"
    /\ ~IsOverrideRow(last_put.before)
    /\ last_put.before.expected_match_candidate # last_put.row.expected_match_candidate
    /\ IsOverrideRow(mapping[RowKey(last_put.row)])

\* C4: an unforced active row put onto an active row with the same
\* expected_match_candidate raises nothing and leaves the mapping as it was.
C4_AgreeingRowKept ==
    [][ ( /\ UnforcedPutDue
          /\ NextRow.status = "active"
          /\ Held(RowKey(NextRow)).status = "active"
          /\ Held(RowKey(NextRow)).expected_match_candidate = NextRow.expected_match_candidate )
        => ( pc' = pc /\ err' = NoError /\ mapping' = mapping ) ]_vars

\* an agreeing active row of the secondary map met the primary map's row, which stayed
C4_Witness ==
    /\ pc = "merge_iv"
    /\ last_put.called /\ ~last_put.force
    /\ last_put.row.status = "active" /\ last_put.before.status = "active"
    /\ last_put.before.expected_match_candidate = last_put.row.expected_match_candidate
    /\ last_put.before # last_put.row
    /\ mapping[RowKey(last_put.row)] = last_put.before
    /\ err = NoError

---------------------------------------------------------------------------
(* Claims about the mapping rows (checked under Spec) *)

CandidateIds == {"QMSv5_01", "QMSv5_02"}

ActiveRowSound(row) ==
    /\ row.expected_match_candidate \in CandidateIds
    /\ row.expected_mismatch_candidate \in CandidateIds
    /\ row.expected_match_candidate # row.expected_mismatch_candidate

PendingRowSound(row) ==
    row.expected_match_candidate = "" /\ row.expected_mismatch_candidate = ""

\* the rows flatten_map and parse_pc_override_fragments gave, and the rows the mapping holds
RowsInHand ==
    Range(iiia_rows) \cup Range(iv_rows) \cup Range(pc_rows)
        \cup {mapping[k] : k \in DOMAIN mapping}
        \cup (IF last_put.called THEN {last_put.row} ELSE {})

\* C14: every row emitted by flatten_map or parse_pc_override_fragments, and every
\* row of the mapping after any insertions, is active or pending; an active row
\* names two different candidates of {QMSv5_01, QMSv5_02} as expected match and
\* mismatch, a pending row has both fields empty.
C14_RowInvariant ==
    \A row \in RowsInHand :
        /\ row.status \in {"active", "pending"}
        /\ row.status = "active" => ActiveRowSound(row)
        /\ row.status = "pending" => PendingRowSound(row)

\* the merge ended with a pending row, and active rows for both candidates
C14_Witness ==
    /\ pc = "read_comp"
    /\ \E k1, k2, k3 \in DOMAIN mapping :
         /\ mapping[k1].status = "pending"
         /\ mapping[k2].status = "active" /\ mapping[k2].expected_match_candidate = "QMSv5_01"
         /\ mapping[k3].status = "active" /\ mapping[k3].expected_match_candidate = "QMSv5_02"

\* C19: a document that is not of the expected shape (jobs not a list, a job not
\* an object, a job's arms not a list, an arm not an object) makes flatten_map
\* fail and the run stop: flatten_map never returns from a document in which it
\* passed over such an element.
C19_MalformedIsFatal ==
    \A s \in skipped :
        \/ pc = "failed"
        \/ pc \in {"flatten_iiia", "flatten_iv"} /\ s.doc = Doc(pc)

SchemaError(p, tag) == ValueError("Unexpected schema in " \o p \o ": " \o tag)

\* C20: a primary or secondary map whose schema tag is missing or is not
\* 'SentinelQMSv5_BlindingMap@1.0' makes load_blinding_map_stage raise, with no
\* row of a document flattened or merged; rows are flattened only once both maps
\* were loaded under that tag.
C20_SchemaMismatchFatal ==
    /\ \A p \in DOMAIN schema_read :
         schema_read[p] # MAP_SCHEMA
         => /\ pc = "failed" /\ err = SchemaError(p, schema_read[p])
            /\ iiia_rows = <<>> /\ iv_rows = <<>> /\ pc_rows = <<>>
            /\ mapping = <<>> /\ ~last_put.called /\ skipped = {}
            /\ DOMAIN files = {}
    /\ pc \notin {"load_iiia", "load_iv", "failed"}
       => schema_read = [p \in {stage_iiia, stage_iv} |-> MAP_SCHEMA]
    /\ (iiia_rows # <<>> \/ iv_rows # <<>> \/ mapping # <<>>)
       => schema_read = [p \in {stage_iiia, stage_iv} |-> MAP_SCHEMA]

\* the secondary map has no schema tag, the primary map has the right one
C20_Witness ==
    /\ pc = "failed"
    /\ schema_read = Read(Read(<<>>, stage_iiia, MAP_SCHEMA), stage_iv, "None")
    /\ err = SchemaError(stage_iv, "None")
    /\ iiia_rows = <<>> /\ mapping = <<>>

NodeScopes == {"ALL", "Node02_HVT_A_COMPLETED", "Node03_HVT_A_COMPLETED"}

\* msg names the group, the arm and the three raw labels of arm entry a
NamesArm(msg, a) ==
    /\ Contains(msg, " group=" \o norm_group(Get(a, "group", "")) \o " ")
    /\ Contains(msg, " arm=" \o a.arm \o " ")
    /\ Contains(msg, " A_src=" \o Get(a, "A_src", "") \o " ")
    /\ Contains(msg, " QMSv5_01_src=" \o Get(a, "QMSv5_01_src", "") \o " ")
    /\ EndsWith(msg, " QMSv5_02_src=" \o Get(a, "QMSv5_02_src", ""))

\* C18: the message of every resolver failure, from an authority document and
\* from the override fragments alike, names the job id, the node scope, the
\* group, the arm and the three raw labels.
C18_SelfIdentifyingErrors ==
    ResolverFailure
    => /\ Contains(err.msg, " :: job_id=")
       /\ \E scope \in NodeScopes : Contains(err.msg, " node_scope=" \o scope \o " ")
       /\ \E a \in {e[2] : e \in Entries} \cup Fragments : NamesArm(err.msg, a)

---------------------------------------------------------------------------
(* Claims about the reconciliation (checked under Spec and SpecReport) *)

RecordDue == pc = "reconcile" /\ comp_i <= Len(comp_rows)

\* enriched record e carries the expected candidates and the provenance of row
Carries(e, row) ==
    /\ e.expected_match_candidate = row.expected_match_candidate
    /\ e.expected_mismatch_candidate = row.expected_mismatch_candidate
    /\ e.blinding_map_rule = row.rule
    /\ e.blinding_map_job_id = row.map_job_id
    /\ e.blinding_map_source_file = row.map_source_file
    /\ e.blinding_map_source_sha256 = row.map_source_sha256
    /\ e.blinding_map_manual_override_flag = Get(row, "map_manual_override_flag", 0)

\* C15: the lookup of a record takes the row under its (node_id, group, arm) key
\* when there is one, whatever the wildcard key holds: an active one gives the
\* enriched record its expected candidates and provenance, a pending one leaves
\* the record unmatched; the row under ('ALL', group, arm) is used only when the
\* node key holds no row.
C15_NodeKeyFirst ==
    [][ RecordDue =>
        LET r  == comp_rows[comp_i]
            kn == KeyNode(r)
            ka == KeyAll(r)
        IN  /\ (kn \in DOMAIN mapping /\ mapping[kn].status = "active")
               => /\ Len(out_rows') = Len(out_rows) + 1
                  /\ Carries(out_rows'[Len(out_rows')], mapping[kn])
            /\ (kn \in DOMAIN mapping /\ mapping[kn].status # "active")
               => out_rows' = out_rows /\ missing_map' = Append(missing_map, kn)
            /\ (kn \notin DOMAIN mapping /\ ka \in DOMAIN mapping /\ mapping[ka].status = "active")
               => /\ Len(out_rows') = Len(out_rows) + 1
                  /\ Carries(out_rows'[Len(out_rows')], mapping[ka]) ]_vars

\* a record enriched from its node's row while the wildcard row says otherwise
C15_Witness ==
    /\ pc = "done"
    /\ LET kn == KeyNode(comp_rows[1])
           ka == KeyAll(comp_rows[1])
       IN  /\ kn \in DOMAIN mapping /\ ka \in DOMAIN mapping
           /\ mapping[ka].status = "active"
           /\ mapping[kn].expected_match_candidate # mapping[ka].expected_match_candidate
           /\ mapping[kn].map_job_id # mapping[ka].map_job_id
           /\ Carries(out_rows[1], mapping[kn])

\* the reconcile loop and the check of missing_map are over, or the run ended on
\* reading the comparisons
ReconcileOver ==
    \/ pc \in {"write_parsed", "write_merged", "done"}
    \/ pc = "failed" /\ err.type \in {"exit 2", "RuntimeError"}

AllKeysActive ==
    \A i \in 1..Len(comp_rows) : Held(KeyNode(comp_rows[i])).status = "active"

\* one enriched record per input record, in input order
OnePerRecord ==
    /\ Len(out_rows) = Len(comp_rows)
    /\ \A i \in 1..Len(comp_rows) :
         /\ \A f \in DOMAIN comp_rows[i] \ NewFields : out_rows[i][f] = comp_rows[i][f]
         /\ out_rows[i].blinding_map_status = "active"

\* C5 as stated: whenever every record's key is active in the mapping, the
\* reconciliation gives one enriched record per record, no unmatched key, no failure.
C5_AsStated ==
    (ReconcileOver /\ AllKeysActive)
    => (pc # "failed" /\ OnePerRecord /\ missing_map = <<>>)

\* C5 amended: the same when the comparisons CSV holds at least one record (an
\* empty CSV ends the run with exit status 2 before the reconciliation).
C5_Completeness ==
    /\ (ReconcileOver /\ comp_rows # <<>> /\ AllKeysActive)
       => (pc # "failed" /\ OnePerRecord /\ missing_map = <<>>)
    /\ (ReconcileOver /\ comp_rows = <<>>) => (pc = "failed" /\ err.type = "exit 2")

C5_Witness ==
    /\ pc = "done"
    /\ Len(comp_rows) = 2 /\ comp_rows[1] # comp_rows[2]
    /\ AllKeysActive
    /\ OnePerRecord

AbsentKey(r) == KeyNode(r) \notin DOMAIN mapping /\ KeyAll(r) \notin DOMAIN mapping

\* C6: with a record whose key is absent under the node key and the wildcard key,
\* the run never gets to write a file, and ends, after the loop visited every
\* record and recorded that key as missing, with the RuntimeError.
C6_UnmatchedFails ==
    (pc \notin {"load_iiia", "load_iv", "flatten_iiia", "flatten_iv", "parse_pc",
                "merge_iiia", "merge_iv", "merge_pc", "read_comp"}
        /\ \E i \in 1..Len(comp_rows) : AbsentKey(comp_rows[i]))
    => /\ pc \in {"reconcile", "failed"}
       /\ DOMAIN files = {}
       /\ (pc = "reconcile" /\ comp_i > Len(comp_rows)) => missing_map # <<>>
       /\ pc = "failed"
          => /\ err.type = "RuntimeError"
             /\ comp_i = Len(comp_rows) + 1
             /\ Len(out_rows) + Len(missing_map) = Len(comp_rows)
             /\ \A i \in 1..Len(comp_rows) :
                  AbsentKey(comp_rows[i]) => KeyNode(comp_rows[i]) \in Range(missing_map)

\* the run failed although another record matched
C6_Witness ==
    /\ pc = "failed" /\ err.type = "RuntimeError"
    /\ Len(out_rows) >= 1
    /\ \E i \in 1..Len(comp_rows) : AbsentKey(comp_rows[i])
    /\ DOMAIN files = {}

\* C7: the failure report quotes every unmatched key once, sorted, however many
\* there are.
C7_ReportListsEveryKey ==
    (pc = "failed" /\ err.type = "RuntimeError")
    => /\ Range(err.example) = Range(missing_map)
       /\ Len(err.example) = Cardinality(Range(missing_map))
       /\ \A i, j \in 1..Len(err.example) : i < j => KeyLess(err.example[i], err.example[j])

\* C16: an enriched record holds, for every column of the comparison record it
\* was made from, the value the record has there, candidate_label included and
\* whatever the columns are called; the comparison records are left as read; and
\* the enriched file holds those values too.
C16_AdditiveEnrichment ==
    [][ /\ (RecordDue /\ Len(out_rows') = Len(out_rows) + 1)
           => \A f \in DOMAIN comp_rows[comp_i] :
                 out_rows'[Len(out_rows')][f] = comp_rows[comp_i][f]
        /\ comp_rows # <<>> => comp_rows' = comp_rows
        /\ pc' = "done"
           => \A i \in 1..Len(comp_rows) : \A f \in DOMAIN comp_rows[i] :
                 files'["hvtA_comparisons__WITH_BLINDING.csv"][i][f] = comp_rows[i][f] ]_vars

\* C8: an output file exists only once every step up to the check of missing_map
\* has succeeded, the enriched file only at the very end; a failed run has written
\* no file.
C8_FailClosed ==
    /\ DOMAIN files # {}
       => /\ pc \in {"write_merged", "done"}
          /\ err = NoError
          /\ comp_rows # <<>> /\ comp_i > Len(comp_rows)
          /\ missing_map = <<>> /\ Len(out_rows) = Len(comp_rows)
          /\ iiia_rows = <<>> /\ iv_rows = <<>> /\ pc_rows = <<>>
    /\ "hvtA_comparisons__WITH_BLINDING.csv" \in DOMAIN files => pc = "done"
    /\ pc = "done" => DOMAIN files = {"blinding_map_parsed.csv", "hvtA_comparisons__WITH_BLINDING.csv"}
    /\ pc = "failed" => (DOMAIN files = {} /\ err # NoError)

\* a run that matched one record and missed another ended without a file
C8_Witness ==
    /\ pc = "failed" /\ err.type = "RuntimeError"
    /\ Len(out_rows) >= 1
    /\ DOMAIN files = {}

---------------------------------------------------------------------------
(* Claims about the flags of an enriched record (checked under SpecEnrich) *)

\* C23: in the record the reconciler appends for a comparison record,
\* observed_match_via_pass is 1 exactly when the record's pass_fail is 'PASS',
\* is_expected_match_candidate is 1 exactly when the record's candidate label is
\* the expected match of the mapping row found for it, and classification_correct
\* is 1 exactly when those two flags are equal; each flag is 0 otherwise.
C23_Flags ==
    [][(RecordDue /\ Len(out_rows') = Len(out_rows) + 1)
       => LET r == comp_rows[comp_i]
              m == Lookup(mapping, r)
              o == out_rows'[Len(out_rows')]
          IN  /\ o.observed_match_via_pass
                   = (IF "pass_fail" \in DOMAIN r /\ r.pass_fail = "PASS" THEN 1 ELSE 0)
              /\ o.is_expected_match_candidate
                   = (IF CandidateLabel(r) = m.expected_match_candidate THEN 1 ELSE 0)
              /\ o.classification_correct
                   = (IF o.observed_match_via_pass = o.is_expected_match_candidate THEN 1 ELSE 0)
              /\ o.expected_match_candidate = m.expected_match_candidate ]_vars

\* a PASS on the expected mismatch and a FAIL on the expected match, both
\* classified incorrect
C23_Witness ==
    /\ \E i \in 1..Len(out_rows) :
          /\ out_rows[i].pass_fail = "PASS"
          /\ out_rows[i].observed_match_via_pass = 1
          /\ out_rows[i].is_expected_match_candidate = 0
          /\ out_rows[i].classification_correct = 0
    /\ \E i \in 1..Len(out_rows) :
          /\ out_rows[i].pass_fail = "FAIL"
          /\ out_rows[i].observed_match_via_pass = 0
          /\ out_rows[i].is_expected_match_candidate = 1
          /\ out_rows[i].classification_correct = 0

---------------------------------------------------------------------------
(* Claims about the candidate label (checked under SpecLabel) *)

\* the column of record r called k, trimmed; empty when the record has no such column
Trimmed(r, k) == IF k \in DOMAIN r THEN Strip(r[k]) ELSE ""

\* the last three characters of s, or all of s when it is shorter
Tail3(s) == IF Len(s) <= 3 THEN s ELSE SubSeq(s, Len(s) - 2, Len(s))

\* C24: the candidate label of a record is its candidate_label column, trimmed,
\* when that is not empty; otherwise it follows from the trimmed compare_folder:
\* QMSv5_01 when it ends in '_01', QMSv5_02 when it ends in '_02', and the empty
\* label for any other value.
C24_CandidateLabel ==
    pc = "labelled"
    => LET explicit == Trimmed(args[1], "candidate_label")
           folder   == Trimmed(args[1], "compare_folder")
       IN  IF explicit # "" THEN result = explicit
           ELSE IF Tail3(folder) = "_01" THEN result = "QMSv5_01"
           ELSE IF Tail3(folder) = "_02" THEN result = "QMSv5_02"
           ELSE result = ""

\* a blank explicit label, and a compare_folder that ends in '_01' once trimmed
C24_Witness ==
    /\ pc = "labelled"
    /\ args[1] = LabelRecord(" ", "COMPARE_A_vs_QMSv5_01 ")
    /\ result = "QMSv5_01"

---------------------------------------------------------------------------
(* Claims about the written mapping table (checked under Spec) *)

MappingTable == files["blinding_map_parsed.csv"]

\* the (node_scope, group, arm) of a line of the mapping table
LineKey(line) == <<line.node_scope, line.group, line.arm>>

\* C25: once the mapping table is written, every key of the merged mapping whose
\* row is active has exactly one line in it, with that row's status and expected
\* candidates; every line is the line of such a key, so a key whose row is
\* pending has none; and no two lines have the same (node_scope, group, arm).
C25_MappingTable ==
    "blinding_map_parsed.csv" \in DOMAIN files
    => /\ \A k \in DOMAIN mapping :
             mapping[k].status = "active"
             => \E i \in 1..Len(MappingTable) :
                   /\ LineKey(MappingTable[i]) = k
                   /\ MappingTable[i].status = "active"
                   /\ MappingTable[i].expected_match_candidate = mapping[k].expected_match_candidate
                   /\ MappingTable[i].expected_mismatch_candidate = mapping[k].expected_mismatch_candidate
       /\ \A i \in 1..Len(MappingTable) :
             /\ LineKey(MappingTable[i]) \in DOMAIN mapping
             /\ mapping[LineKey(MappingTable[i])].status = "active"
       /\ \A i, j \in 1..Len(MappingTable) :
             LineKey(MappingTable[i]) = LineKey(MappingTable[j]) => i = j

\* a table of two lines written from a mapping of three keys, one of them pending
C25_Witness ==
    /\ "blinding_map_parsed.csv" \in DOMAIN files
    /\ Len(MappingTable) = 2
    /\ \E k \in DOMAIN mapping : mapping[k].status = "pending"
    /\ Cardinality(DOMAIN mapping) = 3

---------------------------------------------------------------------------
(* Claims about the extractor's verdict signals (checked under SpecExtract) *)

\* the verdict signals of comparison row r agree with its pass_fail
SignalsAgree(r) ==
    LET pass == r.pass_fail = "PASS"
    IN  /\ r.pass_fail \in {"PASS", "FAIL"}
        /\ pass <=> r.summary_result = "HASH PARITY PASS"
        /\ pass <=> /\ r.missing_count_summary = JsonInt(0)
                    /\ r.extras_count_summary = JsonInt(0)
                    /\ r.fingerprint_match = JsonBool(TRUE)
        /\ pass <=> /\ StrLower(r.missing_global_sha256) = EMPTY_SHA256
                    /\ StrLower(r.extras_global_sha256) = EMPTY_SHA256
        /\ pass <=> r.esf_match = 1

\* what the files of HV metadata file hv say, each on its own; the ESF file is
\* the one of the folder the summary's result points to
SaysPass(hv) ==
    << hv.summary_result = "HASH PARITY PASS",
       hv.missing_count = JsonInt(0) /\ hv.extras_count = JsonInt(0) /\ hv.match = JsonBool(TRUE),
       StrLower(hv.missing_sha) = EMPTY_SHA256 /\ StrLower(hv.extras_sha) = EMPTY_SHA256,
       (IF hv.summary_result = "HASH PARITY PASS" THEN hv.esf_at_match ELSE hv.esf_at_root)
          = "ESF SET EQUIVALENT" >>

Disagreement(hv) ==
    LET says == SaysPass(hv)
    IN  ~(says[1] = says[2] /\ says[2] = says[3] /\ says[3] = says[4])

StrictRun == pc \in {"extracted", "done", "failed"} /\ args[1]

\* C26: in strict mode every comparison row that extract returns, and every row
\* of the comparisons CSV, has pass_fail PASS exactly when summary_result is
\* 'HASH PARITY PASS', exactly when both counts are 0 and fingerprint_match is
\* true, exactly when both global hashes are the empty-file SHA-256 (in either
\* case of the hex digits), and exactly when esf_match is 1; when the signals of
\* one file disagree extract raises RuntimeError, and main writes a comparisons
\* CSV without rows and exits with an error.
C26_StrictVerdictsAgree ==
    StrictRun
    => /\ result.ok
          => \A i \in 1..Len(result.comparisons) : SignalsAgree(result.comparisons[i])
       /\ "hvtA_comparisons.csv" \in DOMAIN files
          => \A i \in 1..Len(files["hvtA_comparisons.csv"]) :
                SignalsAgree(files["hvtA_comparisons.csv"][i])
       /\ (\E i \in 1..Len(args[2]) : Disagreement(args[2][i]))
          => /\ ~result.ok /\ result.error.type = "RuntimeError"
             /\ pc # "failed"
             /\ pc = "done"
                => /\ files["hvtA_comparisons.csv"] = <<>>
                   /\ err.type = "exit 1"

\* a FAIL summary next to an equivalent ESF set, met after a consistent file: the
\* run wrote no row, not even the first file's
C26_Witness ==
    /\ pc = "done" /\ args[1]
    /\ Len(args[2]) = 2
    /\ args[2][2].summary_result = "HASH PARITY FAIL"
    /\ args[2][2].missing_count = JsonInt(2)
    /\ args[2][2].missing_sha = OtherSha256
    /\ args[2][2].esf_at_root = "ESF SET EQUIVALENT"
    /\ files["hvtA_comparisons.csv"] = <<>>
    /\ result.error.msg = "ESF_INCONSISTENT"

---------------------------------------------------------------------------
(* Further claims about the merge (checked under Spec) *)

\* C27: no step takes a key out of the mapping, and a key that holds an active
\* row holds an active row after every step, whichever put comes (the rows of
\* the override fragments are all active); an unforced pending row put onto a
\* key that holds a row, active or pending, raises nothing and leaves the
\* mapping as it was.
C27_StatusNeverRegresses ==
    [][ /\ \A k \in DOMAIN mapping :
             /\ k \in DOMAIN mapping'
             /\ mapping[k].status = "active" => mapping'[k].status = "active"
        /\ \A i \in 1..Len(pc_rows) : pc_rows[i].status = "active"
        /\ ( /\ UnforcedPutDue
             /\ NextRow.status = "pending"
             /\ RowKey(NextRow) \in DOMAIN mapping )
           => ( pc' = pc /\ err' = NoError /\ mapping' = mapping ) ]_vars

\* a pending row of the secondary map met an active row, which stayed
C27_Witness ==
    /\ last_put.called /\ ~last_put.force
    /\ last_put.row.status = "pending"
    /\ last_put.before.status = "active"
    /\ mapping[RowKey(last_put.row)] = last_put.before
    /\ pc = "merge_iv" /\ err = NoError

\* an override fragment is due for a key an earlier fragment was applied to
SecondOverrideDue ==
    /\ pc = "merge_pc" /\ pc_rows # <<>>
    /\ RowKey(Head(pc_rows)) \in overridden

\* C28: an override fragment for a key that an earlier fragment was applied to
\* is stored in its place without error, also when both rows are active and name
\* different expected matches; every other key keeps its row.
C28_OverridesDoNotConflict ==
    [][ SecondOverrideDue
        => LET row == Head(pc_rows)
           IN  /\ pc' = pc /\ err' = NoError
               /\ DOMAIN mapping' = DOMAIN mapping
               /\ mapping'[RowKey(row)] = row
               /\ \A k \in DOMAIN mapping \ {RowKey(row)} : mapping'[k] = mapping[k] ]_vars

\* the merge ended on a fragment that replaced an earlier fragment's row, the
\* two naming different expected matches
C28_Witness ==
    /\ pc = "read_comp" /\ err = NoError
    /\ last_put.called /\ last_put.force
    /\ last_put.before.status = "active" /\ IsOverrideRow(last_put.before)
    /\ last_put.row.status = "active"
    /\ last_put.before.expected_match_candidate # last_put.row.expected_match_candidate
    /\ mapping[RowKey(last_put.row)] = last_put.row

---------------------------------------------------------------------------
(* Claims about node rows and wildcard rows (checked under Spec) *)

\* the mapping holds a pending row under the node key of record r and an active
\* row under its wildcard key
Shadowed(r) ==
    /\ KeyNode(r) \in DOMAIN mapping /\ mapping[KeyNode(r)].status = "pending"
    /\ KeyAll(r) \in DOMAIN mapping /\ mapping[KeyAll(r)].status = "active"

\* C29: a comparison record whose node key holds a pending row is not enriched
\* from the active row of its wildcard key: once the loop has visited it its key
\* is in missing_map and no enriched record has that key; the run writes no file
\* and ends with the RuntimeError that quotes the key.
C29_PendingShadowsWildcard ==
    \A i \in 1..Len(comp_rows) :
        Shadowed(comp_rows[i])
        => /\ pc \in {"reconcile", "failed"}
           /\ DOMAIN files = {}
           /\ i < comp_i => KeyNode(comp_rows[i]) \in Range(missing_map)
           /\ \A j \in 1..Len(out_rows) : KeyNode(out_rows[j]) # KeyNode(comp_rows[i])
           /\ pc = "failed"
              => /\ err.type = "RuntimeError"
                 /\ KeyNode(comp_rows[i]) \in Range(err.example)

\* the run failed on a Node03 record whose arm is pending for Node03 and active
\* for every node, after it had enriched another record
C29_Witness ==
    /\ pc = "failed" /\ err.type = "RuntimeError"
    /\ Len(comp_rows) = 2
    /\ Shadowed(comp_rows[2])
    /\ Len(out_rows) = 1
    /\ missing_map = <<KeyNode(comp_rows[2])>>

\* the mapping holds active rows under the node key and the wildcard key of
\* record r, and they name different expected matches
ScopesDisagree(r) ==
    /\ KeyNode(r) \in DOMAIN mapping /\ mapping[KeyNode(r)].status = "active"
    /\ KeyAll(r) \in DOMAIN mapping /\ mapping[KeyAll(r)].status = "active"
    /\ mapping[KeyNode(r)].expected_match_candidate # mapping[KeyAll(r)].expected_match_candidate

\* C30: a put raises only for an unforced active row whose own key holds an
\* active row with another expected match; a row for a key the mapping does not
\* hold is stored and every other row stays, whatever the rows of other node
\* scopes say for that group and arm. In a finished run a record whose node key
\* and wildcard key hold disagreeing active rows is enriched from the node's
\* row, and a record whose node key holds no row from the wildcard row.
C30_ConflictsPerKeyOnly ==
    /\ [][ (pc \in {"merge_iiia", "merge_iv", "merge_pc"} /\ Pending(pc) # <<>>)
           => LET row == Head(Pending(pc))
                  key == RowKey(row)
              IN  /\ pc' = "failed"
                     => /\ pc # "merge_pc"
                        /\ row.status = "active"
                        /\ Held(key).status = "active"
                        /\ Held(key).expected_match_candidate # row.expected_match_candidate
                  /\ key \notin DOMAIN mapping
                     => /\ pc' = pc /\ err' = NoError
                        /\ mapping' = Stored(mapping, key, row) ]_vars
    /\ [](pc = "done"
          => \A i \in 1..Len(comp_rows) :
                /\ ScopesDisagree(comp_rows[i])
                   => /\ out_rows[i].expected_match_candidate
                           = mapping[KeyNode(comp_rows[i])].expected_match_candidate
                      /\ out_rows[i].blinding_map_job_id = mapping[KeyNode(comp_rows[i])].map_job_id
                /\ (KeyNode(comp_rows[i]) \notin DOMAIN mapping)
                   => /\ out_rows[i].expected_match_candidate
                           = mapping[KeyAll(comp_rows[i])].expected_match_candidate
                      /\ out_rows[i].blinding_map_job_id = mapping[KeyAll(comp_rows[i])].map_job_id)

\* a finished run on a Node03 record and a Node02 record of one group and arm:
\* the mapping holds disagreeing active rows for Node03 and for ALL, the first
\* record has the expected match of Node03's row, the second that of the
\* wildcard row
C30_Witness ==
    /\ pc = "done"
    /\ Len(comp_rows) = 2
    /\ ScopesDisagree(comp_rows[1])
    /\ KeyNode(comp_rows[2]) \notin DOMAIN mapping
    /\ KeyAll(comp_rows[2]) = KeyAll(comp_rows[1])
    /\ out_rows[1].expected_match_candidate = mapping[KeyNode(comp_rows[1])].expected_match_candidate
    /\ out_rows[2].expected_match_candidate = mapping[KeyAll(comp_rows[1])].expected_match_candidate
    /\ out_rows[1].expected_match_candidate # out_rows[2].expected_match_candidate

====
